---- MODULE Spec2Model ----
(***************************************************************************)
(* Model of the RPN-REPL interpreter (rpn.js, the latest variant in        *)
(* src/unnamed/part_002 lines 2005-2714): tokenizer, evaluator             *)
(* (evaluateRPN), function precompilation (precompileTokens), the step     *)
(* reducer (stepVerbose) and the command line driver (cli) with its        *)
(* persisted registers, external variables (SimVars) and result history.   *)
(*                                                                         *)
(* Conventions.  JavaScript arrays are sequences: JS index n is TLA+       *)
(* index n+1.  Numbers are integers; the operators that leave the integers *)
(* (/ ^ sqrt sin ...) are not part of the modelled token vocabulary.  A    *)
(* hole of a sparse JS array reads as 0 (vars[n] ?? 0), so it is kept as   *)
(* 0.  A thrown Error is a result whose field err is not "".               *)
(***************************************************************************)
EXTENDS Integers, Sequences, FiniteSets, TLC

VARIABLES
  src,       \* tokenizer: the source string, a sequence of characters
  tkI,       \* tokenizer: cursor i (1-based)
  tkToks,    \* tokenizer: tokens pushed so far
  tkpc,      \* tokenizer: "scan" | "done" | "oom"
  inp,       \* one evaluation call: its inputs
  out,       \* one evaluation call: its result
  fileVars,  \* cli: persisted registers   (.rpn_state.json)
  fileSim,   \* cli: persisted SimVars     (.simvars.json)
  fileHist,  \* cli: persisted history     (.rpnstack.json)
  last,      \* cli: what the last invocation did
  prev,      \* the invocation (cli) or the call (session) before the last one
  okLog      \* cli: result stacks of the successful non-recall runs, latest first

vars == <<src, tkI, tkToks, tkpc, inp, out, fileVars, fileSim, fileHist, last, prev, okLog>>

tokVars == <<src, tkI, tkToks, tkpc>>
evalVars == <<inp, out>>
cliVars == <<fileVars, fileSim, fileHist, last, prev, okLog>>

(***************************************************************************)
(* Generic helpers                                                         *)
(***************************************************************************)
RECURSIVE Flatten(_)
Flatten(ss) == IF ss = <<>> THEN <<>> ELSE Head(ss) \o Flatten(Tail(ss))

RECURSIVE SeqsUpTo(_, _)
SeqsUpTo(S, n) ==
  IF n = 0 THEN {<<>>}
  ELSE LET shorter == SeqsUpTo(S, n - 1)
       IN  shorter \cup {Append(s, x) : s \in {t \in shorter : Len(t) = n - 1}, x \in S}

Front(s) == SubSeq(s, 1, Len(s) - 1)
Last(s) == s[Len(s)]

(***************************************************************************)
(* Tokenizer: tokenize(src) as a loop, one action per iteration of the     *)
(* outer while.                                                            *)
(***************************************************************************)
IsSpace(ch) == ch = " "
IsBracket(ch) == ch \in {"(", ")", "{", "}"}

StartsWith(s, pat, i) ==
  /\ i + Len(pat) - 1 <= Len(s)
  /\ \A k \in 1..Len(pat) : s[i + k - 1] = pat[k]

\* the inner while of the '(' case: returns j (first index after the scan)
RECURSIVE ParenEnd(_, _, _)
ParenEnd(s, j, d) ==
  IF j <= Len(s) /\ d > 0
  THEN ParenEnd(s, j + 1, IF s[j] = "(" THEN d + 1 ELSE IF s[j] = ")" THEN d - 1 ELSE d)
  ELSE j

\* the inner while of the default case
RECURSIVE RunEnd(_, _)
RunEnd(s, j) ==
  IF j <= Len(s) /\ ~IsSpace(s[j]) /\ ~IsBracket(s[j]) THEN RunEnd(s, j + 1) ELSE j

IfOpen == <<"i", "f", "{">>
ElseOpen == <<"e", "l", "s", "e", "{">>

\* one iteration of the outer loop: the new cursor and the token pushed (or none)
TokIter(s, i) ==
  LET ch == s[i] IN
  IF IsSpace(ch) THEN [i |-> i + 1, push |-> FALSE, tok |-> <<>>]
  ELSE IF ch = "(" THEN
    LET j == ParenEnd(s, i + 1, 1) IN [i |-> j, push |-> TRUE, tok |-> SubSeq(s, i, j - 1)]
  ELSE IF StartsWith(s, IfOpen, i) THEN [i |-> i + 3, push |-> TRUE, tok |-> IfOpen]
  ELSE IF StartsWith(s, ElseOpen, i) THEN [i |-> i + 5, push |-> TRUE, tok |-> ElseOpen]
  ELSE IF ch = "}" THEN [i |-> i + 1, push |-> TRUE, tok |-> <<"}">>]
  ELSE LET j == RunEnd(s, i) IN [i |-> j, push |-> TRUE, tok |-> SubSeq(s, i, j - 1)]

\* tokens.filter(Boolean): the empty string is falsy
FilterBoolean(toks) == SelectSeq(toks, LAMBDA t : t # <<>>)

MaxPieces == 4
MaxTokens == 6

Pieces == { <<" ">>, <<"(">>, <<")">>, <<"{">>, <<"}">>, <<"x">>, IfOpen, ElseOpen }

Sources == { Flatten(ps) : ps \in SeqsUpTo(Pieces, MaxPieces) }

TokInit ==
  /\ src \in Sources
  /\ tkI = 1
  /\ tkToks = <<>>
  /\ tkpc = "scan"
  /\ inp = [expr |-> <<>>] /\ out = [done |-> FALSE]
  /\ fileVars = <<>> /\ fileSim = <<>> /\ fileHist = <<>>
  /\ last = [ran |-> FALSE] /\ prev = [ran |-> FALSE] /\ okLog = <<>>

\* while (i < src.length) { ... }
TokStep ==
  /\ tkpc = "scan"
  /\ tkI <= Len(src)
  /\ Len(tkToks) < MaxTokens
  /\ LET r == TokIter(src, tkI) IN
       /\ tkI' = r.i
       /\ tkToks' = IF r.push THEN Append(tkToks, r.tok) ELSE tkToks
  /\ UNCHANGED <<src, tkpc, evalVars, cliVars>>

\* return tokens.filter(Boolean)
TokReturn ==
  /\ tkpc = "scan"
  /\ tkI > Len(src)
  /\ tkToks' = FilterBoolean(tkToks)
  /\ tkpc' = "done"
  /\ UNCHANGED <<src, tkI, evalVars, cliVars>>

\* the token array outgrows what the process can hold: the run dies
TokExhaust ==
  /\ tkpc = "scan"
  /\ tkI <= Len(src)
  /\ Len(tkToks) >= MaxTokens
  /\ tkpc' = "oom"
  /\ UNCHANGED <<src, tkI, tkToks, evalVars, cliVars>>

TokNext == TokStep \/ TokReturn \/ TokExhaust

TokSpec == TokInit /\ [][TokNext]_vars

\* C2: tokenize never fails: on every source string the loop ends and the
\* token list is returned; the run never dies in the loop.
C2_TokenizeNeverFails == tkpc # "oom"

(***************************************************************************)
(* Tokens of the evaluator.  A token is its lexical class k with the       *)
(* numbers the class's regular expression captures (n, m):                 *)
(*   num n      /^[-+]?\d+(?:[.,]\d+)?$/   the integer literal n           *)
(*   p n        /^p\d+$/                   parameter pN                    *)
(*   r n m      /^r(\d+)?(,\d+)?$/         recall; Absent = group missing  *)
(*   s, l, sp, lp n                        register tokens                 *)
(*   simR, simW n m                        (P:KEY), (>P:KEY): prefix n, key m *)
(*   if{  else{  }                         block markers                   *)
(*   id n                                  any other identifier (function) *)
(*   anything else: the operator spelled k                                 *)
(***************************************************************************)
Tok(k, n, m) == [k |-> k, n |-> n, m |-> m]
Num(v) == Tok("num", v, 0)
Op(k) == Tok(k, 0, 0)
Absent == -1
PrefA == 0
PrefL == 1
TopLevel == -1

isNumberToken(t) == t.k = "num"
parseNumber(t) == t.n
truthy_Positive(v) == v > 0

Min2(a, b) == IF a <= b THEN a ELSE b
Max2(a, b) == IF a >= b THEN a ELSE b
B2N(b) == IF b THEN 1 ELSE 0

\* the one value of the model that is no integer: NaN, which a remainder by
\* zero produces.  It is kept apart from every integer the checks compute and
\* no arithmetic is done on it: each operator below answers for it first.
NaN == -1000000

\* !!toNum(v): zero and NaN are false
truthy(v) == v # 0 /\ v # NaN

\* a % b of JavaScript: the remainder takes the sign of the dividend, and
\* b = 0 gives NaN
Abs(a) == IF a < 0 THEN -a ELSE a
JsRem(a, b) ==
  IF b = 0 THEN NaN
  ELSE IF a >= 0 THEN a % Abs(b) ELSE -((-a) % Abs(b))

\* the result of an operator one of whose operands is NaN: comparisons are
\* false (so != is true), the logical operators read NaN as false,
\* Math.pow(x, 0) is 1, everything else is NaN
NaNResult(op, argv) ==
  CASE op \in {">", "<", ">=", "<=", "==", "="} -> 0
    [] op \in {"!=", "<>"} -> 1
    [] op \in {"and", "&&"} -> B2N(\A j \in 1..Len(argv) : argv[j] # 0 /\ argv[j] # NaN)
    [] op \in {"or", "||"} -> B2N(\E j \in 1..Len(argv) : argv[j] # 0 /\ argv[j] # NaN)
    [] op \in {"not", "!"} -> 1
    [] op \in {"^", "pow"} -> IF argv[2] = 0 THEN 1 ELSE NaN
    [] OTHER -> NaN
HasNaN(argv) == \E j \in 1..Len(argv) : argv[j] = NaN

\* a / b of JavaScript where b divides a (other quotients are no integers and
\* are not produced by the expressions checked)
ExactDiv(a, b) ==
  IF (a >= 0) = (b > 0) THEN Abs(a) \div Abs(b) ELSE -(Abs(a) \div Abs(b))

\* Math.pow(a, b) for an integer b >= 0 (Math.pow(x, 0) is 1 for every x)
RECURSIVE JsPow(_, _)
JsPow(a, b) == IF b = 0 THEN 1 ELSE a * JsPow(a, b - 1)


UN_OPS == {"not", "!", "round", "floor", "ceil", "abs", "dnor", "pow2"}
BIN_OPS == {"+", "-", "*", "/", "%", "^", "pow", ">", "<", ">=", "<=", "==", "=", "!=", "<>",
            "and", "&&", "or", "||", "min", "max"}
NO_OPS == {"Boolean", "Number", ","}

EvalUn_PlainRemainder(op, a) ==
  IF a = NaN THEN NaNResult(op, <<a>>) ELSE
  CASE op \in {"not", "!"} -> B2N(~truthy(a))
    [] op \in {"round", "floor", "ceil"} -> a
    [] op = "abs" -> Abs(a)
    [] op = "pow2" -> a * a
    [] op = "dnor" -> JsRem(a, 360)

\* the unary cases of the switch in resolveToken
EvalUn(op, a) ==
  IF a = NaN THEN NaNResult(op, <<a>>) ELSE
  CASE op \in {"not", "!"} -> B2N(~truthy(a))
    [] op \in {"round", "floor", "ceil"} -> a
    [] op = "abs" -> Abs(a)
    [] op = "pow2" -> a * a
    [] op = "dnor" -> JsRem(JsRem(a, 360) + 360, 360)

\* the binary cases of the switch in resolveToken; a is the deeper operand
EvalBin(op, a, b) ==
  IF HasNaN(<<a, b>>) THEN NaNResult(op, <<a, b>>) ELSE
  CASE op = "+" -> a + b
    [] op = "-" -> a - b
    [] op = "*" -> a * b
    [] op = "/" -> ExactDiv(a, b)
    [] op = "%" -> JsRem(a, b)
    [] op \in {"^", "pow"} -> JsPow(a, b)
    [] op = ">" -> B2N(a > b)
    [] op = "<" -> B2N(a < b)
    [] op = ">=" -> B2N(a >= b)
    [] op = "<=" -> B2N(a <= b)
    [] op \in {"==", "="} -> B2N(a = b)
    [] op \in {"!=", "<>"} -> B2N(a # b)
    [] op \in {"and", "&&"} -> B2N(truthy(a) /\ truthy(b))
    [] op \in {"or", "||"} -> B2N(truthy(a) \/ truthy(b))
    [] op = "min" -> Min2(a, b)
    [] op = "max" -> Max2(a, b)

EvalClamp_ValueFirst(minVal, maxVal, val) ==
  IF HasNaN(<<minVal, maxVal, val>>) THEN NaN ELSE Max2(val, Min2(maxVal, minVal))

\* case 'clamp': minVal=pop(), maxVal=pop(), val=pop()
EvalClamp(minVal, maxVal, val) ==
  IF HasNaN(<<minVal, maxVal, val>>) THEN NaN ELSE Max2(minVal, Min2(maxVal, val))

(***************************************************************************)
(* JavaScript arrays and the SimVar map                                    *)
(***************************************************************************)
Zeros(n) == [i \in 1..n |-> 0]
NumRegs == 10

\* a[n] ?? 0
ArrGet(a, n) == IF n + 1 \in 1..Len(a) THEN a[n + 1] ELSE 0

\* a[n] = v (the array grows when n is beyond its end)
ArrSet(a, n, v) ==
  IF n + 1 <= Len(a) THEN [a EXCEPT ![n + 1] = v]
  ELSE a \o Zeros(n - Len(a)) \o <<v>>

\* Array(10).fill(0)
FreshRegs == Zeros(NumRegs)

StoreVar_Next(a, n, v) == ArrSet(a, n + 1, v)

\* sN: vars[n] = toNum(val)
StoreVar(a, n, v) == ArrSet(a, n, v)
\* lN: vars[n] ?? 0
LoadVar(a, n) == ArrGet(a, n)
StoreReg_KeepOnEmpty(a, n, stack) == IF stack # <<>> THEN ArrSet(a, n, Last(stack)) ELSE a
\* spN: regs[n] = toNum(stack.length ? stack[stack.length-1] : 0)
StoreReg(a, n, stack) == ArrSet(a, n, IF stack # <<>> THEN Last(stack) ELSE 0)
\* lpN: regs[n] ?? 0
LoadReg(a, n) == ArrGet(a, n)

\* the SimVar object: a function on pairs <<prefix, key>>; <<TopLevel, key>> is
\* a legacy number stored directly under its key
EmptySim == [x \in {} |-> 0]

\* Keys are numbered.  KeyConstructor is the key 'constructor': the map and
\* its dictionaries are plain objects, so dict['constructor'] is the inherited
\* function Object when the dictionary has no entry of that name.  A function
\* on the stack is read by every operator, by the stores and by fmt through
\* toNum, which gives NaN, and its text is no number token: it is NaN here.
KeyConstructor == 5

\* const dict = sim[prefix] || {}; legacy sim[key] for prefix A when
\* dict[key] == null; else dict[key] ?? 0
getSimValue(prefix, key, sim) ==
  IF <<prefix, key>> \in DOMAIN sim THEN sim[<<prefix, key>>]
  ELSE IF key = KeyConstructor THEN NaN
  ELSE IF prefix = PrefA /\ <<TopLevel, key>> \in DOMAIN sim THEN sim[<<TopLevel, key>>]
  ELSE 0

setSimValue(prefix, key, val, sim) ==
  [x \in DOMAIN sim \cup {<<prefix, key>>} |-> IF x = <<prefix, key>> THEN val ELSE sim[x]]

(***************************************************************************)
(* findBlockEnd: index of the '}' matching the block opened at openIndex,  *)
(* 0 when it throws                                                        *)
(***************************************************************************)
\* a scan that stops at the first closing brace, whatever the nesting
RECURSIVE FindBlockEndFrom_FirstClose(_, _, _)
FindBlockEndFrom_FirstClose(toks, i, depth) ==
  IF i > Len(toks) THEN 0
  ELSE IF toks[i].k = "}" THEN i
  ELSE FindBlockEndFrom_FirstClose(toks, i + 1, depth)

RECURSIVE FindBlockEndFrom(_, _, _)
FindBlockEndFrom(toks, i, depth) ==
  IF i > Len(toks) THEN 0
  ELSE IF toks[i].k \in {"if{", "else{"} THEN FindBlockEndFrom(toks, i + 1, depth + 1)
  ELSE IF toks[i].k = "}"
       THEN IF depth - 1 = 0 THEN i ELSE FindBlockEndFrom(toks, i + 1, depth - 1)
  ELSE FindBlockEndFrom(toks, i + 1, depth)

findBlockEnd(toks, openIndex) == FindBlockEndFrom(toks, openIndex + 1, 1)

(***************************************************************************)
(* evaluateRPN.  The state of one call is a record                         *)
(*   stack, regs           the call's own stack and session registers      *)
(*   vars, sim             the caller's arrays, shared by reference        *)
(*   dirty                 simvarsDirty of this call                       *)
(*   err                   "" or the Error thrown ("underflow", "recall",  *)
(*                         "brace", "arity", "unknown")                    *)
(*   eTok, ePos, eD,       where it was thrown: the token, its position    *)
(*   eStack, ePre          and call depth (as in log), the stack of the    *)
(*                         throwing call then, and before that token       *)
(*   log                   history variable: one entry per token resolved, *)
(*                         in order, over all sub-evaluations: its         *)
(*                         position pos in the top-level token list (in    *)
(*                         the body for a function body), the call depth   *)
(*                         d, the token t, the stack before and after, and *)
(*                         top: the position of the top-level token it is  *)
(*                         part of (itself, or the call it runs under)     *)
(* The environment env of a call holds params, functions (fnMap), results, *)
(* and for the log the call depth and the offset of the running slice.     *)
(***************************************************************************)
NoTok == Tok("", 0, 0)

InitState_SharedRegs(opts, log) ==
  [stack |-> <<>>, regs |-> opts.vars, vars |-> opts.vars, sim |-> opts.sim, dirty |-> FALSE,
   err |-> "", eTok |-> NoTok, ePos |-> 0, eD |-> 0, eStack |-> <<>>, ePre |-> <<>>,
   log |-> log]

InitState_SeededStack(opts, log) ==
  [stack |-> IF opts.results # <<>> THEN opts.results[1] ELSE <<>>, regs |-> FreshRegs,
   vars |-> opts.vars, sim |-> opts.sim, dirty |-> FALSE, err |-> "", eTok |-> NoTok,
   ePos |-> 0, eD |-> 0, eStack |-> <<>>, ePre |-> <<>>, log |-> log]

InitState(opts, log) ==
  [stack |-> <<>>, regs |-> FreshRegs, vars |-> opts.vars, sim |-> opts.sim,
   dirty |-> FALSE, err |-> "", eTok |-> NoTok, ePos |-> 0, eD |-> 0,
   eStack |-> <<>>, ePre |-> <<>>,
   log |-> log]

Throw_Rollback(st, env, idx, kind, t, pre) ==
  [st EXCEPT !.err = kind, !.eTok = t, !.ePos = env.base + idx, !.eD = env.depth,
             !.eStack = st.stack, !.ePre = pre, !.vars = Zeros(NumRegs), !.sim = EmptySim]

\* throw new Error(...) while resolving t, entered with stack pre
Throw(st, env, idx, kind, t, pre) ==
  [st EXCEPT !.err = kind, !.eTok = t, !.ePos = env.base + idx, !.eD = env.depth,
             !.eStack = st.stack, !.ePre = pre]

\* the token is done: the stack becomes stk, and the log gets its entry
Fin(st, env, idx, t, stk) ==
  [st EXCEPT !.stack = stk,
             !.log = Append(@, [pos |-> env.base + idx, d |-> env.depth, t |-> t,
                                top |-> IF env.depth = 0 THEN env.base + idx ELSE env.top,
                                pre |-> st.stack, post |-> stk])]

ArityFails_OffByOne(stack, f) == Len(stack) < f.params - 1

\* if (stack.length < func.params) throw
ArityFails(stack, f) == Len(stack) < f.params

Pop2_Swapped(stack) == [a |-> stack[Len(stack)], b |-> stack[Len(stack) - 1]]

\* const b=pop(), a=pop(); return [a,b]
Pop2(stack) == [a |-> stack[Len(stack) - 1], b |-> stack[Len(stack)]]

\* for (k = params-1; k >= 0; k--) ps[k] = stack.pop(): the values popped,
\* deepest first (a pop of the empty stack gives undefined, read as 0 by ?? 0)
\* const ps = Array(func.params); for (k = params-1; k >= 0; k--) ps[k] = stack.pop()
PoppedArgs(stack, n) ==
  [k \in 1..n |-> IF Len(stack) - n + k >= 1 THEN stack[Len(stack) - n + k] ELSE 0]
StackAfterArgs_Cleared(stack, n) == <<>>
StackAfterArgs(stack, n) == SubSeq(stack, 1, Max2(Len(stack) - n, 0))

\* String(v) as tokenize reads it back: the decimal text of an integer is a
\* number token, the text "NaN" is a token of no kind
NaNToken == Tok("NaN", 0, 0)
StringToken(v) == IF v = NaN THEN NaNToken ELSE Num(v)

\* tokenize(func.rpn).map(tok => /^p(\d+)$/.test(tok) ? String(ps[N-1] ?? 0) : tok)
BindBody(rpn, ps) ==
  [j \in 1..Len(rpn) |->
     IF rpn[j].k = "p"
     THEN StringToken(IF rpn[j].n \in 1..Len(ps) THEN ps[rpn[j].n] ELSE 0)
     ELSE rpn[j]]

\* the options of the recursive call: { vars, simvars, functions, results }
SubOptions(st, env) ==
  [vars |-> st.vars, sim |-> st.sim, params |-> <<>>, fns |-> env.fns, results |-> env.results]

\* params[t] ?? 0
ParamValue(params, n) == IF n \in DOMAIN params THEN params[n] ELSE 0

RecallSlot_FromZero(t) == IF t.n = Absent THEN 1 ELSE t.n + 1

\* const ri = m[1] ? parseInt(m[1],10) : 1
RecallSlot(t) == IF t.n = Absent THEN 1 ELSE t.n

RECURSIVE runTokens(_, _, _, _)
RECURSIVE resolveToken(_, _, _, _, _)
RECURSIVE EvalCall(_, _, _, _, _)

\* function evaluateRPN(src, options), called at depth under the top-level
\* token top with the log so far
EvalCall(tokens, opts, depth, top, log) ==
  runTokens(tokens, 1, InitState(opts, log),
            [params |-> opts.params, fns |-> opts.fns, results |-> opts.results,
             depth |-> depth, base |-> 0, top |-> top])

\* let i=0; while(i<toks.length) i = resolveToken(toks[i], i, toks)
runTokens(toks, i, st, env) ==
  IF st.err # "" \/ i > Len(toks) THEN st
  ELSE LET r == resolveToken(toks[i], i, toks, st, env)
       IN  runTokens(toks, r.next, r.st, env)

resolveToken(t, idx, toks, st, env) ==
  LET pre == st.stack
      n == Len(pre)
      next(s) == [next |-> idx + 1, st |-> s]
      push(v) == next(Fin(st, env, idx, t, Append(pre, v)))
      underflow == next(Throw(st, env, idx, "underflow", t, pre))
  IN
  IF isNumberToken(t) THEN push(parseNumber(t))
  ELSE IF t.k = "p" THEN push(ParamValue(env.params, t.n))
  ELSE IF t.k = "r" THEN
    LET ri == RecallSlot(t)
        si == t.m
    IN  IF ri \notin 1..Len(env.results) THEN next(Throw(st, env, idx, "recall", t, pre))
        ELSE LET res == env.results[ri] IN
             IF si = Absent THEN next(Fin(st, env, idx, t, pre \o res))
             ELSE IF si \notin 1..Len(res) THEN next(Throw(st, env, idx, "recall", t, pre))
             ELSE push(res[si])
  ELSE IF t.k = "s" THEN
    IF n = 0 THEN underflow
    ELSE next(Fin([st EXCEPT !.vars = StoreVar(@, t.n, Last(pre))], env, idx, t, Front(pre)))
  ELSE IF t.k = "l" THEN push(LoadVar(st.vars, t.n))
  ELSE IF t.k = "sp" THEN
    next(Fin([st EXCEPT !.regs = StoreReg(@, t.n, pre)], env, idx, t, pre))
  ELSE IF t.k = "lp" THEN push(LoadReg(st.regs, t.n))
  ELSE IF t.k = "simW" THEN
    IF n = 0 THEN underflow
    ELSE next(Fin([st EXCEPT !.sim = setSimValue(t.n, t.m, Last(pre), @), !.dirty = TRUE],
                  env, idx, t, Front(pre)))
  ELSE IF t.k = "simR" THEN push(getSimValue(t.n, t.m, st.sim))
  ELSE IF t.k = "if{" THEN
    LET endIf == findBlockEnd(toks, idx)
        hasElse == endIf # 0 /\ endIf + 1 <= Len(toks) /\ toks[endIf + 1].k = "else{"
        elseStart == endIf + 1
        endElse == IF hasElse THEN findBlockEnd(toks, elseStart) ELSE 0
    IN  IF endIf = 0 \/ (hasElse /\ endElse = 0)
        THEN next(Throw(st, env, idx, "brace", t, pre))
        ELSE IF n = 0 THEN underflow
        ELSE LET cond == Last(pre)
                 st1 == Fin(st, env, idx, t, Front(pre))
             IN  IF truthy(cond)
                 THEN [next |-> IF hasElse THEN endElse + 1 ELSE endIf + 1,
                       st |-> runTokens(SubSeq(toks, idx + 1, endIf - 1), 1, st1,
                                        [env EXCEPT !.base = @ + idx])]
                 ELSE IF hasElse
                 THEN [next |-> endElse + 1,
                       st |-> runTokens(SubSeq(toks, elseStart + 1, endElse - 1), 1, st1,
                                        [env EXCEPT !.base = @ + elseStart])]
                 ELSE [next |-> endIf + 1, st |-> st1]
  ELSE IF t.k = "else{" THEN
    LET endElse == findBlockEnd(toks, idx)
    IN  IF endElse = 0 THEN next(Throw(st, env, idx, "brace", t, pre))
        ELSE [next |-> endElse + 1, st |-> Fin(st, env, idx, t, pre)]
  ELSE IF t.k = "id" /\ t.n \in DOMAIN env.fns THEN
    LET func == env.fns[t.n] IN
    IF ArityFails(pre, func) THEN next(Throw(st, env, idx, "arity", t, pre))
    ELSE LET ps == PoppedArgs(pre, func.params)
             rest == StackAfterArgs(pre, func.params)
             st1 == Fin(st, env, idx, t, rest)
             sub == EvalCall(BindBody(func.rpn, ps), SubOptions(st1, env),
                             env.depth + 1,
                             IF env.depth = 0 THEN env.base + idx ELSE env.top, st1.log)
         IN  IF sub.err # ""
             THEN next([st1 EXCEPT !.vars = sub.vars, !.sim = sub.sim, !.log = sub.log,
                                   !.err = sub.err, !.eTok = sub.eTok,
                                   !.ePos = sub.ePos, !.eD = sub.eD,
                                   !.eStack = sub.eStack, !.ePre = sub.ePre])
             ELSE next([st1 EXCEPT !.vars = sub.vars, !.sim = sub.sim, !.log = sub.log,
                                   !.stack = rest \o sub.stack])
  ELSE IF t.k \in BIN_OPS THEN
    IF n < 2 THEN underflow
    ELSE next(Fin(st, env, idx, t,
                  Append(SubSeq(pre, 1, n - 2), EvalBin(t.k, Pop2(pre).a, Pop2(pre).b))))
  ELSE IF t.k \in UN_OPS THEN
    IF n < 1 THEN underflow
    ELSE next(Fin(st, env, idx, t, Append(Front(pre), EvalUn(t.k, pre[n]))))
  ELSE IF t.k = "clamp" THEN
    IF n < 3 THEN next(Throw([st EXCEPT !.stack = <<>>], env, idx, "underflow", t, pre))
    ELSE next(Fin(st, env, idx, t,
                  Append(SubSeq(pre, 1, n - 3), EvalClamp(pre[n], pre[n - 1], pre[n - 2]))))
  ELSE IF t.k \in NO_OPS THEN next(Fin(st, env, idx, t, pre))
  ELSE next(Throw(st, env, idx, "unknown", t, pre))

\* evaluateRPN(src, options) as the caller sees it
evaluateRPN(tokens, opts) == EvalCall(tokens, opts, 0, 0, <<>>)

(***************************************************************************)
(* precompileTokens: replace function tokens with their body without pN    *)
(***************************************************************************)
IsFuncToken(t, fns) == t.k = "id" /\ t.n \in DOMAIN fns

StripParams_Keep(rpn) == rpn

\* tokenize(f.rpn).filter(x => !/^p\d+$/.test(x))
StripParams(rpn) == SelectSeq(rpn, LAMBDA x : x.k # "p")

\* a single pass that pushes each body as it is written
precompileTokens_OnePass(tokens, fns) ==
  Flatten([j \in 1..Len(tokens) |->
             IF IsFuncToken(tokens[j], fns)
             THEN StripParams(fns[tokens[j].n].rpn)
             ELSE <<tokens[j]>>])

RECURSIVE precompileTokens(_, _)
RECURSIVE PrecompileLoop(_, _)

\* one pass of the for loop over out
PrecompilePass(cur, fns) ==
  Flatten([j \in 1..Len(cur) |->
             IF IsFuncToken(cur[j], fns)
             THEN precompileTokens(StripParams(fns[cur[j].n].rpn), fns)
             ELSE <<cur[j]>>])

\* while (changed) { ... }: changed is set exactly when a pass met a function token
PrecompileLoop(cur, fns) ==
  IF \E j \in 1..Len(cur) : IsFuncToken(cur[j], fns)
  THEN PrecompileLoop(PrecompilePass(cur, fns), fns)
  ELSE cur

precompileTokens(tokens, fns) == PrecompileLoop(tokens, fns)

\* precompileTokens with the depth of its recursion counted: the call on a
\* body runs one level deeper, the next pass of the while loop on the same
\* level.  ok is FALSE when the call would go deeper than the given depth.
RECURSIVE PrecompileWithin(_, _, _)
PrecompileParts(cur, fns, depth) ==
  [j \in 1..Len(cur) |->
     IF IsFuncToken(cur[j], fns)
     THEN PrecompileWithin(StripParams(fns[cur[j].n].rpn), fns, depth - 1)
     ELSE [ok |-> TRUE, toks |-> <<cur[j]>>]]

PrecompileJoin(parts, fns, depth) ==
  IF \E j \in 1..Len(parts) : ~parts[j].ok
  THEN [ok |-> FALSE, toks |-> <<>>]
  ELSE PrecompileWithin(Flatten([j \in 1..Len(parts) |-> parts[j].toks]), fns, depth)

PrecompileWithin(cur, fns, depth) ==
  IF ~\E j \in 1..Len(cur) : IsFuncToken(cur[j], fns)
  THEN [ok |-> TRUE, toks |-> cur]
  ELSE IF depth = 0
       THEN [ok |-> FALSE, toks |-> <<>>]
       ELSE PrecompileJoin(PrecompileParts(cur, fns, depth), fns, depth)

(***************************************************************************)
(* stepVerbose: the step reducer.  Its result is the token list it prints  *)
(* last, or the Error it throws.                                           *)
(***************************************************************************)
tokenIsValue(t) == t.k \in {"num", "l", "lp", "simR"}

\* v || 0
OrZero(v) == IF v = NaN THEN 0 ELSE v

\* vars[n]||0, regs[n]||0, the SimVar lookup
tokenValue(t, ctx) ==
  CASE t.k = "num" -> t.n
    [] t.k = "l" -> OrZero(ArrGet(ctx.vars, t.n))
    [] t.k = "lp" -> OrZero(ArrGet(ctx.regs, t.n))
    [] t.k = "simR" -> getSimValue(t.n, t.m, ctx.sim)

arity(t, fns) ==
  IF t.k \in UN_OPS THEN 1
  ELSE IF t.k \in BIN_OPS THEN 2
  ELSE IF t.k = "clamp" THEN 3
  ELSE IF t.k = "if{" THEN 1
  ELSE IF IsFuncToken(t, fns) THEN fns[t.n].params
  ELSE 0

\* apply(op, arr): the step reducer's own operator table
apply(op, arr) ==
  IF HasNaN(arr) THEN NaNResult(op, arr) ELSE
  CASE op = "+" -> arr[1] + arr[2]
    [] op = "-" -> arr[1] - arr[2]
    [] op = "*" -> arr[1] * arr[2]
    [] op = "/" -> ExactDiv(arr[1], arr[2])
    [] op = "%" -> JsRem(arr[1], arr[2])
    [] op \in {"^", "pow"} -> JsPow(arr[1], arr[2])
    [] op = "pow2" -> arr[1] * arr[1]
    [] op = ">" -> B2N(arr[1] > arr[2])
    [] op = "<" -> B2N(arr[1] < arr[2])
    [] op = ">=" -> B2N(arr[1] >= arr[2])
    [] op = "<=" -> B2N(arr[1] <= arr[2])
    [] op \in {"==", "="} -> B2N(arr[1] = arr[2])
    [] op \in {"!=", "<>"} -> B2N(arr[1] # arr[2])
    [] op \in {"and", "&&"} -> B2N(arr[1] # 0 /\ arr[2] # 0)
    [] op \in {"or", "||"} -> B2N(arr[1] # 0 \/ arr[2] # 0)
    [] op \in {"not", "!"} -> B2N(arr[1] = 0)
    [] op \in {"round", "floor", "ceil"} -> arr[1]
    [] op = "abs" -> Abs(arr[1])
    [] op = "min" -> Min2(arr[1], arr[2])
    [] op = "max" -> Max2(arr[1], arr[2])
    [] op = "clamp" -> Max2(arr[3], Min2(arr[2], arr[1]))
    [] op = "dnor" -> JsRem(JsRem(arr[1], 360) + 360, 360)

\* fmt(v): String(Math.round(v)) of an integer and String(v) of NaN, as the
\* token it is read back as
FmtToken(v) == StringToken(v)

NoRedex == [found |-> FALSE, thrown |-> FALSE, hs |-> 0, he |-> 0, op |-> 0, nums |-> <<>>]

\* the for loop that finds the next reducible segment, from token i with the
\* value segments segs (start index and value) queued so far
RECURSIVE StepScan(_, _, _, _)
StepScan(toks, i, segs, ctx) ==
  IF i > Len(toks) THEN NoRedex
  ELSE
    LET t == toks[i]
        k == arity(t, ctx.fns)
    IN
    IF tokenIsValue(t)
    THEN StepScan(toks, i + 1, Append(segs, [start |-> i, val |-> tokenValue(t, ctx)]), ctx)
    ELSE IF k = 0 THEN StepScan(toks, i + 1, segs, ctx)
    ELSE IF t.k = "if{" THEN
      IF Len(segs) < 1 THEN StepScan(toks, i + 1, segs, ctx)
      ELSE LET endIf == findBlockEnd(toks, i)
               hasElse == endIf # 0 /\ endIf + 1 <= Len(toks) /\ toks[endIf + 1].k = "else{"
               endElse == IF hasElse THEN findBlockEnd(toks, endIf + 1) ELSE 0
           IN  IF endIf = 0 \/ (hasElse /\ endElse = 0)
               THEN [NoRedex EXCEPT !.thrown = TRUE]
               ELSE [found |-> TRUE, thrown |-> FALSE, hs |-> Last(segs).start,
                     he |-> IF hasElse THEN endElse ELSE endIf, op |-> i,
                     nums |-> <<Last(segs).val>>]
    ELSE IF Len(segs) >= k THEN
      LET args == SubSeq(segs, Len(segs) - k + 1, Len(segs))
      IN  [found |-> TRUE, thrown |-> FALSE, hs |-> args[1].start, he |-> i, op |-> i,
           nums |-> [j \in 1..k |-> args[j].val]]
    ELSE StepScan(toks, i + 1, segs, ctx)

\* the options of the step reducer's sub-evaluations: copies, and no history
StepSubOptions(ctx) ==
  [vars |-> ctx.vars, sim |-> ctx.sim, params |-> <<>>, fns |-> ctx.fns, results |-> <<>>]

StepObjects_Shared(ctx, sub) == [ctx EXCEPT !.vars = sub.vars, !.sim = sub.sim]

\* vars: vars.slice(), simvars: JSON.parse(JSON.stringify(simvars)): what the
\* sub-evaluation sub wrote went into copies, so the register array and the
\* SimVar map of the context hold after it what they held before
StepObjects(ctx, sub) == ctx

BranchTokens_Last(stack) == IF stack = <<>> THEN <<>> ELSE <<FmtToken(Last(stack))>>

\* const outVals = sub.stack.map(v => String(...))
BranchTokens(stack) == [j \in 1..Len(stack) |-> FmtToken(stack[j])]

\* one pass of while(true): the reduction of the redex r
StepReduce(toks, r, ctx) ==
  LET t == toks[r.op]
      before == SubSeq(toks, 1, r.hs - 1)
  IN
  IF t.k = "if{" THEN
    LET endIf == findBlockEnd(toks, r.op)
        hasElse == endIf + 1 <= Len(toks) /\ toks[endIf + 1].k = "else{"
        takeIf == OrZero(r.nums[1]) # 0
        body == IF takeIf THEN SubSeq(toks, r.op + 1, endIf - 1)
                ELSE IF hasElse THEN SubSeq(toks, endIf + 2, r.he - 1)
                ELSE <<>>
        sub == evaluateRPN(body, StepSubOptions(ctx))
        outVals == BranchTokens(sub.stack)
    IN  [err |-> sub.err,
         toks |-> before \o outVals \o SubSeq(toks, r.he + 1, Len(toks)),
         which |-> IF takeIf THEN "IF" ELSE IF hasElse THEN "ELSE" ELSE "NONE",
         ctx |-> StepObjects(ctx, sub)]
  ELSE IF IsFuncToken(t, ctx.fns) THEN
    LET sub == evaluateRPN(BindBody(ctx.fns[t.n].rpn, r.nums), StepSubOptions(ctx))
        res == IF sub.stack # <<>> THEN Last(sub.stack) ELSE 0
    IN  [err |-> sub.err,
         toks |-> before \o <<FmtToken(res)>> \o SubSeq(toks, r.op + 1, Len(toks)),
         which |-> "",
         ctx |-> StepObjects(ctx, sub)]
  ELSE
    [err |-> "",
     toks |-> before \o <<FmtToken(apply(t.k, r.nums))>> \o SubSeq(toks, r.op + 1, Len(toks)),
     which |-> "",
     ctx |-> ctx]

RECURSIVE StepLoop(_, _)
StepLoop(toks, ctx) ==
  LET r == StepScan(toks, 1, <<>>, ctx) IN
  IF r.thrown THEN [err |-> "brace", toks |-> toks, ctx |-> ctx]
  ELSE IF ~r.found THEN [err |-> "", toks |-> toks, ctx |-> ctx]
  ELSE LET red == StepReduce(toks, r, ctx) IN
       IF red.err # "" THEN [err |-> red.err, toks |-> toks, ctx |-> red.ctx]
       ELSE IF Len(red.toks) = 1 THEN [err |-> "", toks |-> red.toks, ctx |-> red.ctx]
       ELSE StepLoop(red.toks, red.ctx)

\* stepVerbose(tokensInput, context): context has vars, regs, sim, fns
stepVerbose(tokensInput, ctx) == StepLoop(tokensInput, ctx)

(***************************************************************************)
(* The function table (.rpnfunc.json) used by the checks: the two          *)
(* functions of the README and functions that write state, return several  *)
(* values or none, or take no argument.                                    *)
(***************************************************************************)
FnAdd90 == 1
FnAngleDiff == 2
FnDup == 3
FnStore == 4
FnSeven == 5

FuncFile ==
  (FnAdd90 :> [params |-> 1, rpn |-> <<Tok("p", 1, 0), Num(90), Op("+"), Op("dnor")>>]) @@
  (FnAngleDiff :> [params |-> 2,
                   rpn |-> <<Tok("p", 1, 0), Tok("p", 2, 0), Op("-"), Num(360), Op("+"),
                             Num(360), Op("%")>>]) @@
  (FnDup :> [params |-> 1, rpn |-> <<Tok("p", 1, 0), Tok("p", 1, 0)>>]) @@
  (FnStore :> [params |-> 1,
               rpn |-> <<Tok("p", 1, 0), Tok("s", 1, 0), Tok("p", 1, 0), Tok("sp", 0, 0),
                         Tok("p", 1, 0), Tok("simW", PrefA, 1)>>]) @@
  (FnSeven :> [params |-> 0, rpn |-> <<Num(7)>>])

Fn(n) == Tok("id", n, 0)

(***************************************************************************)
(* One evaluation call, as cli makes it: evaluateRPN on the expression     *)
(* (precompiled first with --precompile), then stepVerbose on the tokens   *)
(* with the registers and SimVars the evaluation returned.                 *)
(***************************************************************************)
EvalOptions(i) ==
  [vars |-> i.vars, sim |-> i.sim, params |-> i.params, fns |-> i.fns, results |-> i.results]

StepContext(r, fns) == [vars |-> r.vars, regs |-> r.regs, sim |-> r.sim, fns |-> fns]

NoStep == [err |-> "none", toks |-> <<>>]

RunCall(i) ==
  LET evalExpr == IF i.pre THEN precompileTokens(i.expr, i.fns) ELSE i.expr
      r == evaluateRPN(evalExpr, EvalOptions(i))
  IN  [done |-> TRUE, evalExpr |-> evalExpr, r |-> r,
       step |-> IF r.err = "" THEN stepVerbose(evalExpr, StepContext(r, i.fns)) ELSE NoStep]

MaxLen == 3

\* persistent registers as loadVars returns them
VarsZero == Zeros(NumRegs)
VarsSome == [i \in 1..NumRegs |-> IF i = 1 THEN 3 ELSE IF i = 2 THEN 4 ELSE 0]

SimSome == (<<PrefA, 1>> :> 8) @@ (<<TopLevel, 2>> :> 9)

HistSome == << <<8>>, <<1, 2, 3>> >>

Vocab ==
  { Num(5), Tok("s", 0, 0), Tok("l", 0, 0), Tok("s", 10, 0), Op("+"), Fn(FnAdd90),
    Fn(FnStore), Fn(FnAngleDiff) }

\* expressions on the session registers and on registers other than 0
RegExprs ==
  { <<Tok("lp", 0, 0)>>, <<Tok("sp", 0, 0), Tok("lp", 0, 0)>>,
    <<Num(5), Tok("sp", 0, 0), Tok("lp", 0, 0)>>,
    <<Num(5), Tok("sp", 0, 0), Tok("s", 0, 0), Tok("lp", 0, 0), Tok("l", 0, 0)>>,
    <<Tok("l", 1, 0), Tok("s", 0, 0), Tok("l", 0, 0), Tok("l", 1, 0)>>,
    <<Num(0), Tok("s", 1, 0), Tok("l", 1, 0), Tok("l", 10, 0)>>,
    <<Num(5), Tok("s", 10, 0), Tok("l", 10, 0)>> }

\* expressions that write and then fail, with tokens after the failing one
ErrExprs ==
  { <<Num(5), Tok("s", 0, 0), Num(6), Tok("simW", PrefA, 1), Op("+"), Num(7), Tok("s", 1, 0)>>,
    <<Num(5), Tok("s", 0, 0), Tok("r", 3, Absent), Num(7), Tok("s", 1, 0)>>,
    <<Num(5), Fn(FnStore), Fn(FnAngleDiff), Num(7), Tok("simW", PrefL, 2)>>,
    <<Num(1), Op("if{"), Num(5), Tok("s", 0, 0), Tok("s", 1, 0), Op("}"), Num(7),
      Tok("s", 2, 0)>>,
    <<Num(5), Tok("s", 0, 0), Op("}"), Num(7), Tok("s", 1, 0)>> }

SeqInputs ==
  { [expr |-> e, vars |-> VarsSome, sim |-> SimSome, params |-> <<>>, fns |-> FuncFile,
     results |-> HistSome, pre |-> FALSE] :
      e \in SeqsUpTo(Vocab, MaxLen) \cup RegExprs \cup ErrExprs }

\* conditionals: cond if{ A } [else{ B }] [post], with bodies that write
MaxBody == 2
IfTok == Op("if{")
ElseTok == Op("else{")
CloseTok == Op("}")

CondExpr(c, A, B, hasElse) ==
  <<c, IfTok>> \o A \o <<CloseTok>> \o
  (IF hasElse THEN <<ElseTok>> \o B \o <<CloseTok>> ELSE <<>>)

BodyVocab == { Num(5), Tok("s", 0, 0), Tok("simW", PrefA, 1), Fn(FnStore) }
WriteBodies == { <<Num(5), Tok("s", 0, 0)>>, <<Num(6), Tok("simW", PrefA, 1)>> }
NestedBodies ==
  { CondExpr(c, a, b, e) : c \in {Num(0), Num(1)}, a \in WriteBodies, b \in WriteBodies,
                           e \in BOOLEAN }
Bodies == SeqsUpTo(BodyVocab, MaxBody) \cup NestedBodies
CondToks == { Num(0), Num(1), Num(-1), Tok("l", 0, 0), Tok("l", 2, 0) }

CondExprs ==
  { CondExpr(c, A, B, TRUE) : c \in CondToks, A \in Bodies, B \in WriteBodies \cup {<<>>} }
  \cup
  { CondExpr(c, A, B, TRUE) : c \in CondToks, A \in WriteBodies \cup {<<>>}, B \in Bodies }
  \cup
  { CondExpr(c, A, <<>>, FALSE) \o post :
      c \in CondToks, A \in Bodies, post \in {<<>>, <<Num(6), Tok("s", 1, 0)>>} }

CondInputs ==
  { [expr |-> e, vars |-> VarsSome, sim |-> SimSome, params |-> <<>>, fns |-> FuncFile,
     results |-> HistSome, pre |-> FALSE] :
      e \in CondExprs }

\* reads and writes of SimVars: prefix A with and without an entry, with a
\* legacy top-level entry, another prefix, and the key 'constructor'
SimVocab ==
  { Num(5), Tok("simW", PrefA, 1), Tok("simR", PrefA, 1), Tok("simR", PrefA, 2),
    Tok("simW", PrefL, 2), Tok("simR", PrefL, 2) }
SimExprs ==
  SeqsUpTo(SimVocab, MaxLen)
  \cup { <<Num(5), Tok("simW", PrefA, 2), Tok("simR", PrefA, 2), Tok("simR", PrefL, 2)>>,
         <<Num(6), Fn(FnStore), Tok("simR", PrefA, 1)>>,
         <<Tok("simR", PrefA, KeyConstructor)>>,
         <<Tok("simR", PrefL, KeyConstructor), Num(1), Op("+")>>,
         <<Num(5), Tok("simW", PrefA, KeyConstructor), Tok("simR", PrefA, KeyConstructor)>> }
SimInputs ==
  { [expr |-> e, vars |-> VarsSome, sim |-> sm, params |-> <<>>, fns |-> FuncFile,
     results |-> HistSome, pre |-> FALSE] :
      e \in SimExprs, sm \in {EmptySim, SimSome} }

\* operator-style calls of functions of arity 0 to 3 whose bodies leave none,
\* one or several values, on stacks deeper than the arity
FnPick == 7
FnSpread == 8
FnAddPlain == 9
FnNone == 10
CallTable ==
  FuncFile @@
  (FnPick :> [params |-> 3, rpn |-> <<Tok("p", 3, 0), Tok("p", 1, 0), Tok("p", 2, 0)>>]) @@
  (FnSpread :> [params |-> 2,
                rpn |-> <<Tok("p", 2, 0), Tok("p", 1, 0), Tok("p", 1, 0), Tok("p", 3, 0)>>]) @@
  (FnAddPlain :> [params |-> 1, rpn |-> <<Tok("p", 1, 0), Num(90), Op("+")>>]) @@
  (FnNone :> [params |-> 1, rpn |-> <<>>])
CallBelow == { <<>>, <<Num(9)>>, <<Num(9), Num(8)>> }
Calls ==
  { <<Num(1), Num(2), Num(3), Fn(FnPick)>>, <<Num(1), Num(2), Fn(FnSpread)>>,
    <<Num(50), Fn(FnAddPlain)>>, <<Num(50), Fn(FnAdd90)>>,
    <<Num(270), Num(90), Fn(FnAngleDiff)>>, <<Num(90), Num(270), Fn(FnAngleDiff)>>,
    <<Num(4), Fn(FnNone)>>, <<Fn(FnSeven)>>, <<Num(-5), Fn(FnDup)>>,
    <<Num(1), Num(2), Fn(FnSpread), Fn(FnPick)>>,
    <<Num(1), IfTok, Num(1), Num(2), Num(3), Fn(FnPick), CloseTok>>,
    <<Num(5), Num(0), Op("%"), Fn(FnAddPlain)>>, <<Num(5), Num(0), Op("%"), Fn(FnNone)>>,
    <<Num(5), Num(0), Op("%"), Num(1), Op("+")>> }
CallExprs ==
  { below \o call \o post :
      below \in CallBelow, call \in Calls, post \in {<<>>, <<Op("+")>>} }
CallInputs ==
  { [expr |-> e, vars |-> VarsSome, sim |-> SimSome, params |-> <<>>, fns |-> CallTable,
     results |-> HistSome, pre |-> FALSE] :
      e \in CallExprs }

\* conditionals followed by further tokens, and conditionals nested three deep
PlainCond(c) == CondExpr(Num(c), <<Num(11)>>, <<Num(22)>>, TRUE)
Deep(c1, c2, c3) ==
  CondExpr(Num(c1),
           CondExpr(Num(c2),
                    CondExpr(Num(c3), <<Num(1)>>, <<Num(2)>>, TRUE) \o <<Num(3)>>,
                    <<Num(4)>>, TRUE) \o <<Num(5)>>,
           <<Num(6)>>, TRUE) \o <<Num(7)>>
ResumePosts ==
  { <<>>, <<Num(6), Tok("s", 1, 0)>>, <<Num(3), Op("+")>>, <<Num(3), Op("+"), Num(4)>> }
  \cup { CondExpr(Num(c), <<Num(5)>>, <<Num(6), Num(7)>>, TRUE) : c \in {0, 1} }
  \cup { CondExpr(Num(c), <<Num(5)>>, <<>>, FALSE) \o <<Num(8)>> : c \in {0, 1} }
ResumeExprs ==
  { PlainCond(c) \o post : c \in {0, 1, -1, 2}, post \in ResumePosts }
  \cup { Deep(c1, c2, c3) : c1 \in {0, 1}, c2 \in {0, 1}, c3 \in {0, 1} }
ResumeInputs ==
  { [expr |-> e, vars |-> VarsSome, sim |-> SimSome, params |-> <<>>, fns |-> FuncFile,
     results |-> HistSome, pre |-> FALSE] :
      e \in ResumeExprs }

\* constructs entered with values on the stack or in the session registers,
\* whose bodies use them, and tokens after the construct that read what the
\* body stored
BranchExprs ==
  { <<Num(5), Num(1), IfTok, Num(1), Op("+"), CloseTok>>,
    <<Num(5), Num(1), IfTok, Num(2), Num(3), Op("+"), CloseTok>>,
    <<Num(5), Num(1), IfTok, Tok("s", 0, 0), CloseTok, Tok("l", 0, 0)>>,
    <<Num(5), Num(0), IfTok, Num(1), CloseTok, ElseTok, Tok("s", 0, 0), CloseTok>>,
    <<Num(5), Num(1), IfTok, Tok("sp", 0, 0), CloseTok, Tok("lp", 0, 0)>>,
    <<Num(5), Num(1), IfTok, Num(1), IfTok, Num(1), Op("+"), CloseTok, CloseTok>>,
    <<Num(5), Num(1), IfTok, Fn(FnAdd90), CloseTok>>,
    <<Num(1), IfTok, Num(7), Tok("sp", 0, 0), CloseTok, Tok("lp", 0, 0)>>,
    <<Num(5), Tok("sp", 0, 0), Num(1), IfTok, Tok("lp", 0, 0), CloseTok>>,
    <<Num(5), Tok("sp", 0, 0), Num(1), IfTok, Num(7), Tok("sp", 0, 0), Tok("lp", 0, 0),
      CloseTok, Tok("lp", 0, 0)>>,
    <<Num(0), IfTok, Num(1), CloseTok, ElseTok, Num(7), Tok("sp", 1, 0), CloseTok,
      Tok("lp", 1, 0)>>,
    <<Num(1), IfTok, Num(5), Tok("s", 0, 0), Num(6), Tok("simW", PrefA, 1), CloseTok,
      Tok("l", 0, 0), Tok("simR", PrefA, 1)>>,
    <<Num(0), IfTok, CloseTok, ElseTok, Num(5), Tok("s", 1, 0), Num(6),
      Tok("simW", PrefL, 2), CloseTok, Tok("l", 1, 0), Tok("simR", PrefL, 2)>> }
BranchInputs ==
  { [expr |-> e, vars |-> VarsSome, sim |-> SimSome, params |-> <<>>, fns |-> FuncFile,
     results |-> HistSome, pre |-> FALSE] :
      e \in BranchExprs }

\* calls made with values below the arguments and a session register set,
\* of a function that stores in s1, sp0 and (>A:1), followed by reads
FrameExprs ==
  { <<Num(9), Tok("sp", 0, 0), Num(5), Fn(FnStore), Tok("lp", 0, 0), Tok("l", 1, 0),
      Tok("simR", PrefA, 1)>>,
    <<Num(9), Num(8), Tok("sp", 0, 0), Num(5), Fn(FnStore), Tok("lp", 0, 0)>>,
    <<Num(5), Fn(FnStore), Num(6), Fn(FnStore), Tok("lp", 0, 0), Tok("l", 1, 0)>>,
    <<Num(9), Num(4), Tok("sp", 1, 0), Fn(FnDup), Tok("lp", 1, 0), Op("+")>> }
FrameInputs ==
  { [expr |-> e, vars |-> VarsSome, sim |-> SimSome, params |-> <<>>, fns |-> FuncFile,
     results |-> HistSome, pre |-> FALSE] :
      e \in FrameExprs }

\* calls of one function whose arity and body vary, with and without --precompile
FnVar == 6
PreVocab == { Num(2), Op("+"), Tok("sp", 0, 0), Tok("lp", 0, 0), Fn(FnSeven) }
PreBodies ==
  SeqsUpTo(PreVocab, MaxBody)
  \cup { <<Num(0), IfTok, Num(5), CloseTok>>, <<ElseTok, Num(5), CloseTok>>,
         <<Tok("s", 0, 0), Tok("l", 0, 0)>> }
VariedFns ==
  { [params |-> 0, rpn |-> b] : b \in PreBodies } \cup
  { [params |-> 1, rpn |-> <<Tok("p", 1, 0)>> \o b] : b \in PreBodies } \cup
  { [params |-> 1, rpn |-> b] : b \in PreBodies }
PreTable(f) ==
  (FnVar :> f) @@ (FnSeven :> FuncFile[FnSeven]) @@ (FnAdd90 :> FuncFile[FnAdd90])
CallSites ==
  { <<Fn(FnVar)>>, <<Num(5), Fn(FnVar)>>,
    <<Num(5), Tok("sp", 0, 0), Fn(FnVar)>>, <<Num(5), Fn(FnVar), Fn(FnAdd90)>>,
    <<Num(0), IfTok, Num(2), CloseTok, Fn(FnVar)>>,
    <<Fn(FnVar), ElseTok, Num(6), CloseTok>>, <<Num(1), IfTok, Num(5), Fn(FnVar), CloseTok>> }

PreInputs ==
  { [expr |-> e, vars |-> VarsSome, sim |-> SimSome, params |-> <<>>, fns |-> PreTable(f),
     results |-> HistSome, pre |-> b] :
      e \in CallSites, f \in VariedFns, b \in BOOLEAN }

\* recalls of slots and elements that exist and that do not, on a stack that
\* is empty or not, followed by an operator or not
RecallExprs ==
  { p \o <<Tok("r", n, k)>> \o q :
      p \in {<<>>, <<Num(5)>>}, q \in {<<>>, <<Op("+")>>},
      n \in {Absent, 0, 1, 2, 3}, k \in {Absent, 0, 1, 2, 3, 4} }
Histories == { HistSome, << <<>>, <<7, 6>> >>, <<>> }
RecallInputs ==
  { [expr |-> e, vars |-> VarsSome, sim |-> SimSome, params |-> <<>>, fns |-> FuncFile,
     results |-> h, pre |-> FALSE] :
      e \in RecallExprs, h \in Histories }

\* the same expressions under two environments that differ in the registers,
\* the parameter bindings, the SimVar map and the history
Envs ==
  { [vars |-> VarsSome, sim |-> SimSome, params |-> <<4>>, results |-> HistSome],
    [vars |-> VarsZero, sim |-> EmptySim, params |-> <<>>, results |-> <<>>] }
EnvVocab ==
  { Num(5), Num(2), Op("-"), Op("not"), Tok("p", 1, 0), Tok("simR", PrefA, 1),
    Tok("simW", PrefA, 1) }
EnvExprs ==
  SeqsUpTo(EnvVocab, MaxLen)
  \cup { CondExpr(c, <<Num(5), Num(2), Op("-")>>, <<Num(7)>>, TRUE) \o <<Op("not")>> :
           c \in {Num(0), Num(1), Tok("p", 1, 0)} }
EnvInputs ==
  { [expr |-> e, vars |-> v.vars, sim |-> v.sim, params |-> v.params, fns |-> FuncFile,
     results |-> v.results, pre |-> FALSE] :
      e \in EnvExprs, v \in Envs }

EvalInit ==
  /\ inp \in SeqInputs \cup CondInputs \cup PreInputs \cup RecallInputs \cup EnvInputs
            \cup ResumeInputs \cup CallInputs \cup SimInputs \cup BranchInputs
            \cup FrameInputs
  /\ out = [done |-> FALSE]
  /\ src = <<>> /\ tkI = 1 /\ tkToks = <<>> /\ tkpc = "done"
  /\ fileVars = <<>> /\ fileSim = EmptySim /\ fileHist = <<>>
  /\ last = [ran |-> FALSE] /\ prev = [ran |-> FALSE] /\ okLog = <<>>

Evaluate ==
  /\ ~out.done
  /\ out' = RunCall(inp)
  /\ UNCHANGED <<inp, tokVars, cliVars>>

EvalNext == Evaluate

EvalSpec == EvalInit /\ [][EvalNext]_vars

(***************************************************************************)
(* Properties of one evaluation call                                       *)
(***************************************************************************)
Log == out.r.log
IsRegToken(t) == t.k \in {"s", "l", "sp", "lp"}
\* the tokens read as numbers, as the step reducer reads a value token
NumbersOf(toks, ctx) == [j \in 1..Len(toks) |-> tokenValue(toks[j], ctx)]

\* C1: for every expression whose evaluation succeeds, the token list the step
\* reducer ends with consists of value tokens and, read as numbers, equals the
\* evaluator's final stack, element for element.
C1_StepEqualsEval ==
  (out.done /\ out.r.err = "") =>
     /\ out.step.err = ""
     /\ \A j \in 1..Len(out.step.toks) : tokenIsValue(out.step.toks[j])
     /\ NumbersOf(out.step.toks, StepContext(out.r, inp.fns)) = out.r.stack

\* C5: a register token with an index outside 0..9 is never resolved (it
\* aborts the evaluation), and the persistent register array keeps its 10
\* slots.
C5_RegisterIndexChecked ==
  out.done =>
     /\ \A j \in 1..Len(Log) : IsRegToken(Log[j].t) => Log[j].t.n \in 0..(NumRegs - 1)
     /\ Len(out.r.vars) = NumRegs

\* C6: a function token met with fewer stack values than its arity throws the
\* arity error before anything is popped and before its body is evaluated;
\* no call is ever started with too few values.
C6_ArityEnforced ==
  out.done =>
     /\ \A j \in 1..Len(Log) :
          IsFuncToken(Log[j].t, inp.fns) =>
             /\ Len(Log[j].pre) >= inp.fns[Log[j].t.n].params
             /\ Log[j].post = SubSeq(Log[j].pre, 1, Len(Log[j].pre) - inp.fns[Log[j].t.n].params)
     /\ out.r.err = "arity" =>
          /\ IsFuncToken(out.r.eTok, inp.fns)
          /\ Len(out.r.ePre) < inp.fns[out.r.eTok.n].params
          /\ out.r.eStack = out.r.ePre
          /\ ~\E j \in 1..Len(Log) :
                Log[j].pos = out.r.ePos /\ Log[j].d = out.r.eD /\ Log[j].t = out.r.eTok

C6_Witness ==
  /\ out.done /\ out.r.err = "arity"
  /\ out.r.ePre # <<>>
  /\ inp.fns[out.r.eTok.n].params = 2

\* the value register n holds before log entry j: the value of the latest
\* store to n among the entries before j, the initial value if there is none
RECURSIVE RegBefore(_, _, _, _)
RegBefore(log, j, n, init) ==
  IF j <= 1 THEN ArrGet(init, n)
  ELSE IF log[j - 1].t.k = "s" /\ log[j - 1].t.n = n THEN Last(log[j - 1].pre)
  ELSE RegBefore(log, j - 1, n, init)

IfEnd(p) == findBlockEnd(out.evalExpr, p)
IfHasElse(p) ==
  IfEnd(p) + 1 <= Len(out.evalExpr) /\ out.evalExpr[IfEnd(p) + 1].k = "else{"
ElseEnd(p) == findBlockEnd(out.evalExpr, IfEnd(p) + 1)
IfRange(p) == (p + 1)..(IfEnd(p) - 1)
ElseRange(p) == IF IfHasElse(p) THEN (IfEnd(p) + 2)..(ElseEnd(p) - 1) ELSE {}

IsWriteToken(t) == t.k \in {"s", "simW"}

\* the positions in range lo..hi that are not inside a nested block
RECURSIVE OpensBefore(_, _, _)
OpensBefore(toks, lo, q) ==
  IF q <= lo THEN 0
  ELSE OpensBefore(toks, lo, q - 1)
       + (IF toks[q - 1].k \in {"if{", "else{"} THEN 1
          ELSE IF toks[q - 1].k = "}" THEN -1 ELSE 0)
DirectIn(toks, range) ==
  IF range = {} THEN {}
  ELSE LET lo == CHOOSE a \in range : \A b \in range : a <= b
       IN  { q \in range : OpensBefore(toks, lo, q) = 0 }

TopEntries(range) == { j \in 1..Len(Log) : Log[j].top \in range }

\* C7: for every conditional resolved at top level, a nonzero condition runs
\* no token of the else body and a zero condition no token of the if body
\* (so none of its register or SimVar writes, made directly or by a function
\* it calls, occurs); when the evaluation succeeds every write token directly
\* in the chosen body has run exactly once.
C7_BranchExclusive ==
  out.done =>
    \A j \in 1..Len(Log) :
      (Log[j].t.k = "if{" /\ Log[j].d = 0) =>
        LET p == Log[j].pos
            cond == Last(Log[j].pre)
            chosen == IF cond # 0 THEN IfRange(p) ELSE ElseRange(p)
            other == IF cond # 0 THEN ElseRange(p) ELSE IfRange(p)
        IN  /\ TopEntries(other) = {}
            /\ out.r.err = "" =>
                 \A q \in DirectIn(out.evalExpr, chosen) :
                    IsWriteToken(out.evalExpr[q]) =>
                       Cardinality({ k \in 1..Len(Log) : Log[k].d = 0 /\ Log[k].pos = q }) = 1

\* both branches hold writes, the condition is negative (nonzero), the if
\* body's writes changed a register, and the else body's did not happen
C7_Witness ==
  /\ out.done /\ out.r.err = ""
  /\ \E j \in 1..Len(Log) :
       /\ Log[j].t.k = "if{" /\ Log[j].d = 0
       /\ Last(Log[j].pre) < 0
       /\ \E q \in IfRange(Log[j].pos) : out.evalExpr[q].k = "s"
       /\ \E q \in ElseRange(Log[j].pos) : out.evalExpr[q].k = "simW"
       /\ out.r.vars # inp.vars
       /\ out.r.sim = inp.sim

\* a zero condition with an else block, and one without
C7_WitnessElse ==
  /\ out.done /\ out.r.err = ""
  /\ \E j \in 1..Len(Log) :
       /\ Log[j].t.k = "if{" /\ Log[j].d = 0
       /\ Last(Log[j].pre) = 0
       /\ \E q \in ElseRange(Log[j].pos) : out.evalExpr[q].k = "simW"
       /\ \E q \in IfRange(Log[j].pos) : out.evalExpr[q].k = "s"
       /\ out.r.vars = inp.vars
       /\ out.r.sim # inp.sim

(***************************************************************************)
(* Precompilation against dynamic invocation                               *)
(***************************************************************************)
HasParam(rpn) == \E j \in 1..Len(rpn) : rpn[j].k = "p"
\* an arity-1 body that is p1 followed by placeholder-free tokens
P1Form(f) ==
  /\ f.params = 1 /\ f.rpn # <<>>
  /\ f.rpn[1] = Tok("p", 1, 0)
  /\ ~HasParam(Tail(f.rpn))
HasSessionToken(rpn) == \E j \in 1..Len(rpn) : rpn[j].k \in {"sp", "lp"}
HasBlockToken(rpn) == \E j \in 1..Len(rpn) : rpn[j].k \in {"if{", "else{", "}"}
CallsFunction(toks, fns) == \E j \in 1..Len(toks) : IsFuncToken(toks[j], fns)

\* the evaluation of the same expression with dynamic invocation
Dynamic == evaluateRPN(inp.expr, EvalOptions(inp))

\* C8 as stated: with only functions whose body has no pN, or is p1 followed
\* by placeholder-free tokens (arity 1), the precompiled evaluation ends with
\* the stack of the dynamic one.
C8_PrecompileEqualsDynamic ==
  (/\ out.done /\ inp.pre
   /\ \A n \in DOMAIN inp.fns : ~HasParam(inp.fns[n].rpn) \/ P1Form(inp.fns[n])
   /\ Dynamic.err = "" /\ out.r.err = "")
  => out.r.stack = Dynamic.stack

\* C8 as amended: the functions have arity 0 and a body without pN, or arity 1
\* and a body p1 followed by placeholder-free tokens, and no body holds a
\* session register token or a block marker; then whenever the dynamic
\* evaluation succeeds, the precompiled one succeeds with the same stack.
PlainFunction(f) ==
  /\ (f.params = 0 /\ ~HasParam(f.rpn)) \/ P1Form(f)
  /\ ~HasSessionToken(f.rpn)
  /\ ~HasBlockToken(f.rpn)

C8_PrecompileEqualsDynamicPlain ==
  (/\ out.done /\ inp.pre
   /\ \A n \in DOMAIN inp.fns : PlainFunction(inp.fns[n])
   /\ Dynamic.err = "")
  => (out.r.err = "" /\ out.r.stack = Dynamic.stack)

\* a precompiled run in which a plain p1-form function with a two-token body
\* was expanded and the dynamic evaluation of the same expression succeeds
C8_Witness ==
  /\ out.done /\ inp.pre
  /\ \A n \in DOMAIN inp.fns : PlainFunction(inp.fns[n])
  /\ Dynamic.err = ""
  /\ CallsFunction(inp.expr, inp.fns)
  /\ out.evalExpr # inp.expr
  /\ FnVar \in DOMAIN inp.fns /\ P1Form(inp.fns[FnVar]) /\ Len(inp.fns[FnVar].rpn) = 3
  /\ Len(out.r.stack) = 1 /\ out.r.stack[1] > 7

(***************************************************************************)
(* cli: one invocation `node rpn.js "<expr>" [--precompile] [--step]`.     *)
(* The files are read, the expression is evaluated, and only when the      *)
(* evaluation returned are the registers, the SimVars (when dirty) and the *)
(* history written; the step trace is printed after that.                  *)
(***************************************************************************)
HistMax == 8

\* o.vars.slice(0,10).map(Number)
loadVars(f) == SubSeq(f, 1, Min2(Len(f), NumRegs))

\* prefixed maps are copied; a legacy top-level number KEY becomes A:KEY
loadSimvars(f) ==
  LET nested == { x \in DOMAIN f : x[1] # TopLevel }
      legacy == { x[2] : x \in { y \in DOMAIN f : y[1] = TopLevel } }
  IN  [x \in nested \cup { <<PrefA, key>> : key \in legacy } |->
         IF x[1] = PrefA /\ x[2] \in legacy THEN f[<<TopLevel, x[2]>>] ELSE f[x]]

loadResults(f) == f

\* results.slice(0,8)
saveResults(results) == SubSeq(results, 1, Min2(Len(results), HistMax))

isPureRTokenExpression_Never(toks) == Len(toks) = 0

\* toks.length === 1 && /^r(\d+)?(,\d+)?$/.test(toks[0])
isPureRTokenExpression(toks) == Len(toks) = 1 /\ toks[1].k = "r"

NewHistory_Oldest(stack, hist) == SubSeq(hist \o <<stack>>, 1, Min2(Len(hist) + 1, HistMax))

\* [ [...stack], ...resultsHistory ].slice(0,8)
NewHistory(stack, hist) == SubSeq(<<stack>> \o hist, 1, Min2(Len(hist) + 1, HistMax))

SavedWhen_Always(reached, new, old) == new

\* a save that stands after evaluateRPN in the try block: the file gets the
\* new content when that line is reached, and keeps its content when
\* evaluateRPN threw (catch: console.error, process.exit(1))
SavedWhen(reached, new, old) == IF reached THEN new ELSE old

\* the writes of one invocation, given what it loaded (hist0), the expression
\* evaluated and the outcome r of evaluateRPN
CliSave(expr, doPre, doStep, hist0, evalExpr, r, ok, pure, recallOnly) ==
  /\ fileVars' = SavedWhen(ok, r.vars, fileVars)
  /\ fileSim' = SavedWhen(ok /\ r.dirty, r.sim, fileSim)
  /\ fileHist' = SavedWhen(ok /\ ~pure, saveResults(NewHistory(r.stack, hist0)), fileHist)
  /\ okLog' = IF ok /\ ~recallOnly THEN <<r.stack>> \o okLog ELSE okLog
  /\ last' = [ran |-> TRUE, expr |-> expr, doPre |-> doPre, doStep |-> doStep,
              ok |-> ok, pure |-> recallOnly, stack |-> r.stack, log |-> r.log,
              step |-> IF ok /\ doStep THEN stepVerbose(evalExpr, StepContext(r, FuncFile))
                       ELSE NoStep,
              hist0 |-> fileHist, vars0 |-> fileVars, sim0 |-> fileSim,
              mem |-> [vars |-> r.vars, sim |-> r.sim, dirty |-> r.dirty]]
  /\ prev' = IF last.ran THEN [ran |-> TRUE, ok |-> last.ok, pure |-> last.pure]
                         ELSE [ran |-> FALSE]
  /\ UNCHANGED <<tokVars, evalVars>>

CliRun(expr, doPre, doStep, hist0, evalExpr, r) ==
  CliSave(expr, doPre, doStep, hist0, evalExpr, r, r.err = "",
          isPureRTokenExpression(expr), Len(expr) = 1 /\ expr[1].k = "r")

CliEval(expr, doPre, doStep, hist0, evalExpr) ==
  CliRun(expr, doPre, doStep, hist0, evalExpr,
         evaluateRPN(evalExpr, [vars |-> loadVars(fileVars), sim |-> loadSimvars(fileSim),
                                params |-> <<>>, fns |-> FuncFile, results |-> hist0]))

Cli(expr, doPre, doStep) ==
  CliEval(expr, doPre, doStep, loadResults(fileHist),
          IF doPre THEN precompileTokens(expr, FuncFile) ELSE expr)

CliInit ==
  /\ fileVars = VarsZero /\ fileSim = EmptySim /\ fileHist = <<>>
  /\ last = [ran |-> FALSE] /\ prev = [ran |-> FALSE] /\ okLog = <<>>
  /\ src = <<>> /\ tkI = 1 /\ tkToks = <<>> /\ tkpc = "done"
  /\ inp = [expr |-> <<>>] /\ out = [done |-> FALSE]

(***************************************************************************)
(* A session of invocations that fill the history                          *)
(***************************************************************************)
MaxEvals == 9

\* the expressions of the next invocation: the n-th successful evaluation that
\* is saved leaves the stack [n], by a literal or by adding 1 to the top of the
\* latest stack; the others are single recall tokens and an expression that
\* fails
HistExprs ==
  { <<Num(Len(okLog) + 1)>>,
    <<Tok("r", 1, 1), Num(1), Op("+")>>,
    <<Tok("r", Absent, Absent)>>, <<Tok("r", 1, Absent)>>, <<Tok("r", 2, 1)>>,
    <<Tok("r", Absent, 2)>>, <<Op("+")>> }

HistRun ==
  /\ Len(okLog) < MaxEvals
  /\ \E e \in HistExprs : Cli(e, FALSE, FALSE)

HistNext == HistRun

HistSpec == CliInit /\ [][HistNext]_vars

\* what rN returns: the stack of an evaluation of the single token rN
Recall(n) ==
  evaluateRPN(<<Tok("r", n, Absent)>>,
              [vars |-> loadVars(fileVars), sim |-> loadSimvars(fileSim), params |-> <<>>,
               fns |-> FuncFile, results |-> loadResults(fileHist)])

\* C3: after more than 8 successful evaluations of expressions that are not a
\* single recall token the history holds exactly 8 stacks, those of the 8
\* latest of them, and r1..r8 return them, the latest first.
C3_HistoryBound ==
  Len(okLog) > HistMax =>
     /\ Len(fileHist) = HistMax
     /\ \A n \in 1..HistMax :
          /\ fileHist[n] = okLog[n]
          /\ Recall(n).err = "" /\ Recall(n).stack = okLog[n]

C3_Witness ==
  /\ Len(okLog) > HistMax
  /\ okLog[1] # okLog[2]
  /\ okLog[HistMax] # okLog[HistMax + 1]
  /\ last.ran /\ last.ok /\ ~last.pure

\* C4: an invocation whose expression is exactly one recall token leaves the
\* history as it was, so r1 and r2 return what they returned before it.
C4_RecallOnlyKeepsHistory ==
  (last.ran /\ last.pure) => fileHist = last.hist0

C4_Witness ==
  /\ last.ran /\ last.pure /\ last.ok
  /\ prev.ran /\ prev.pure /\ prev.ok
  /\ Len(fileHist) >= 2 /\ fileHist[1] # fileHist[2]
  /\ last.stack = fileHist[2]

(***************************************************************************)
(* A session of evaluation calls on the same objects: the caller keeps the *)
(* register array and the SimVar map it passed (evaluateRPN writes into    *)
(* them and returns them) and passes them to the next call.                *)
(***************************************************************************)
MaxCalls == 2

SimA1 == Tok("simW", PrefA, 1)
ReadA1 == Tok("simR", PrefA, 1)

SessExprs ==
  { <<Num(5), Tok("s", 0, 0)>>, <<Num(6), Tok("s", 0, 0)>>, <<Num(5), Tok("sp", 0, 0)>>,
    <<Num(5), SimA1>>, <<Num(6), SimA1>>, <<Num(5), Fn(FnStore)>>,
    <<Num(5), Tok("sp", 0, 0), Tok("lp", 0, 0)>>, <<Num(5), Tok("s", 10, 0)>>,
    <<Num(5), Tok("sp", 0, 0), Num(6), Tok("s", 0, 0), Num(7), SimA1>>,
    <<Num(5), Tok("s", 0, 0), Op("+")>>,
    <<Tok("l", 0, 0)>>, <<Tok("lp", 0, 0)>>, <<ReadA1>>, <<Tok("l", 1, 0)>>,
    <<Tok("l", 10, 0)>>, <<Tok("lp", 0, 0), Tok("l", 0, 0), ReadA1>> }

SessInit ==
  /\ inp \in { [expr |-> e, vars |-> VarsSome, sim |-> SimSome, params |-> <<>>,
                fns |-> FuncFile, results |-> HistSome, pre |-> FALSE] : e \in SessExprs }
  /\ out = [done |-> FALSE]
  /\ src = <<>> /\ tkI = 1 /\ tkToks = <<>> /\ tkpc = "done"
  /\ fileVars = <<>> /\ fileSim = EmptySim /\ fileHist = <<>>
  /\ last = [ran |-> FALSE] /\ prev = [ran |-> FALSE] /\ okLog = <<>>

CallsBefore == IF prev.ran THEN prev.n ELSE 0

\* the next call gets the array and the map the call before it wrote into
NextCall ==
  /\ out.done
  /\ CallsBefore + 1 < MaxCalls
  /\ \E e \in SessExprs :
       inp' = [inp EXCEPT !.expr = e, !.vars = out.r.vars, !.sim = out.r.sim]
  /\ out' = [done |-> FALSE]
  /\ prev' = [ran |-> TRUE, n |-> CallsBefore + 1, inp |-> inp, out |-> out]
  /\ UNCHANGED <<tokVars, fileVars, fileSim, fileHist, last, okLog>>

Next == Evaluate \/ NextCall

Spec == SessInit /\ [][Next]_vars

\* the latest entry before position j of the log that is a token of class k
\* with the numbers n, m (0 when there is none)
RECURSIVE LatestWrite(_, _, _, _, _)
LatestWrite(log, j, k, n, m) ==
  IF j <= 1 THEN 0
  ELSE IF log[j - 1].t.k = k /\ log[j - 1].t.n = n /\ log[j - 1].t.m = m THEN j - 1
  ELSE LatestWrite(log, j - 1, k, n, m)

\* C9: of two successive calls on the same register array and SimVar map, the
\* second reads 0 with lpN where the first stored with spN, and reads with lN
\* and (A:KEY) the value the first stored last with sN and (>A:KEY).
C9_SessionRegistersLost ==
  (out.done /\ prev.ran) =>
     LET L1 == prev.out.r.log
         L2 == out.r.log
     IN  \A j \in 1..Len(L2) :
           LET e == L2[j]
               w == LatestWrite(L1, Len(L1) + 1, CASE e.t.k = "lp" -> "sp"
                                                   [] e.t.k = "l" -> "s"
                                                   [] e.t.k = "simR" -> "simW"
                                                   [] OTHER -> "none", e.t.n, e.t.m)
               again == LatestWrite(L2, j, CASE e.t.k = "lp" -> "sp"
                                             [] e.t.k = "l" -> "s"
                                             [] e.t.k = "simR" -> "simW"
                                             [] OTHER -> "none", e.t.n, e.t.m)
           IN  (w # 0 /\ again = 0) =>
                  /\ e.t.k = "lp" => e.post = Append(e.pre, 0)
                  /\ e.t.k \in {"l", "simR"} => e.post = Append(e.pre, Last(L1[w].pre))

C9_Witness ==
  /\ out.done /\ prev.ran
  /\ prev.inp.expr = <<Num(5), Tok("sp", 0, 0), Num(6), Tok("s", 0, 0), Num(7), SimA1>>
  /\ prev.out.r.err = ""
  /\ inp.expr = <<Tok("lp", 0, 0), Tok("l", 0, 0), ReadA1>>
  /\ out.r.err = "" /\ out.r.stack = <<0, 6, 7>>

(***************************************************************************)
(* The dirty flag                                                          *)
(***************************************************************************)
\* C11: the dirty flag of an evaluation is true exactly when a SimVar write
\* token was resolved during it, at top level, in a taken branch or in the
\* body of a called function.
C11_DirtyIffWritten ==
  out.done => (out.r.dirty <=> \E j \in 1..Len(Log) : Log[j].t.k = "simW")

(***************************************************************************)
(* Errors leave the writes made so far                                     *)
(***************************************************************************)
\* C12: when an evaluation aborts, the register array and the SimVar map hold
\* exactly the writes of the tokens resolved before the failing one, the
\* latest write to a slot winning: nothing is rolled back, and no token after
\* the failing one is resolved.
C12_NoRollback ==
  (out.done /\ out.r.err # "") =>
     /\ Len(out.r.vars) >= Len(inp.vars)
     /\ \A n \in 0..(Len(out.r.vars) - 1) :
          ArrGet(out.r.vars, n) = RegBefore(Log, Len(Log) + 1, n, inp.vars)
     /\ \A j \in 1..Len(Log) : Log[j].t.k = "s" => Log[j].t.n < Len(out.r.vars)
     /\ DOMAIN out.r.sim =
          DOMAIN inp.sim \cup { <<Log[j].t.n, Log[j].t.m>> : j \in { i \in 1..Len(Log) : Log[i].t.k = "simW" } }
     /\ \A x \in DOMAIN out.r.sim :
          LET w == LatestWrite(Log, Len(Log) + 1, "simW", x[1], x[2])
          IN  out.r.sim[x] = IF w # 0 THEN Last(Log[w].pre) ELSE inp.sim[x]
     /\ out.r.eD = 0 => \A j \in 1..Len(Log) : Log[j].top < out.r.ePos

C12_Witness ==
  /\ out.done /\ out.r.err = "underflow" /\ out.r.eD = 0
  /\ out.r.ePos < Len(inp.expr)
  /\ ArrGet(out.r.vars, 0) = 5 /\ ArrGet(inp.vars, 0) # 5
  /\ out.r.sim # inp.sim
  /\ \E j \in (out.r.ePos + 1)..Len(inp.expr) : inp.expr[j].k = "s"

(***************************************************************************)
(* Operators on integer operands: one evaluation of 'a b op', 'x op' or    *)
(* 'a b c clamp', with the step trace of the same expression               *)
(***************************************************************************)
MaxOperand == 3

Operands ==
  (-MaxOperand..MaxOperand) \cup {-725, -400, -361, -360, -359, 10, 20, 359, 360, 361, 400, 725}
ClampOperands == (-MaxOperand..MaxOperand) \cup {10, 20}

\* the operand pairs on which the result of op is an integer
OpDefined(op, a, b) ==
  CASE op = "/" -> b # 0 /\ JsRem(a, b) = 0
    [] op \in {"^", "pow"} -> b \in 0..MaxOperand /\ a \in -20..20
    [] OTHER -> TRUE

OpExprs ==
  { <<Num(a), Num(b), Op(op)>> :
      a \in Operands, b \in Operands, op \in BIN_OPS }
  \cup { <<Num(x), Op(op)>> : x \in Operands, op \in UN_OPS }
  \cup { p \o <<Num(a), Num(b), Num(c), Op("clamp")>> :
           p \in {<<>>, <<Num(9)>>}, a \in ClampOperands, b \in ClampOperands,
           c \in ClampOperands }
  \cup { <<Num(330), Num(90), Op("+"), Op("dnor")>>, <<Num(9), Num(5), Num(3), Op("-")>>,
         <<Num(5), Num(3), Op("-")>>, <<Num(5), Num(3), Op(">")>>,
         <<Num(9), Num(5), Num(3), Op(">")>> }

OpInputs ==
  { [expr |-> e, vars |-> VarsSome, sim |-> SimSome, params |-> <<>>, fns |-> FuncFile,
     results |-> HistSome, pre |-> FALSE] :
      e \in { x \in OpExprs :
                (Len(x) = 3 /\ x[3].k \in BIN_OPS) => OpDefined(x[3].k, x[1].n, x[2].n) } }

OpInit ==
  /\ inp \in OpInputs
  /\ out = [done |-> FALSE]
  /\ src = <<>> /\ tkI = 1 /\ tkToks = <<>> /\ tkpc = "done"
  /\ fileVars = <<>> /\ fileSim = EmptySim /\ fileHist = <<>>
  /\ last = [ran |-> FALSE] /\ prev = [ran |-> FALSE] /\ okLog = <<>>

OpNext == Evaluate

OpSpec == OpInit /\ [][OpNext]_vars

IsClampExpr == inp.expr # <<>> /\ inp.expr[Len(inp.expr)].k = "clamp"
\* the operands of the clamp in the order they were pushed
ClampArgs == SubSeq(inp.expr, Len(inp.expr) - 3, Len(inp.expr) - 1)
ClampRest == [j \in 1..(Len(inp.expr) - 4) |-> inp.expr[j].n]
Lower(a, b) == IF a <= b THEN a ELSE b
Higher(a, b) == IF a >= b THEN a ELSE b

\* C13 as stated: clamp takes the first-popped value as the value, the second
\* as the upper bound and the third as the lower bound, pushes
\* max(lower, min(upper, value)), and the step reducer ends with the same.
C13_ClampValueFirst ==
  (out.done /\ IsClampExpr) =>
     LET value == ClampArgs[3].n
         upper == ClampArgs[2].n
         lower == ClampArgs[1].n
     IN  /\ out.r.err = ""
         /\ out.r.stack = Append(ClampRest, Higher(lower, Lower(upper, value)))
         /\ NumbersOf(out.step.toks, StepContext(out.r, inp.fns)) = out.r.stack

\* C13 as amended: clamp takes the first-popped value as the lower bound, the
\* second as the upper bound and the third as the value, pushes
\* max(lower, min(upper, value)) in place of the three, and the step reducer
\* ends with the same numbers.
C13_ClampLowerFirst ==
  (out.done /\ IsClampExpr) =>
     LET lower == ClampArgs[3].n
         upper == ClampArgs[2].n
         value == ClampArgs[1].n
     IN  /\ out.r.err = ""
         /\ out.r.stack = Append(ClampRest, Higher(lower, Lower(upper, value)))
         /\ out.step.err = ""
         /\ \A j \in 1..Len(out.step.toks) : isNumberToken(out.step.toks[j])
         /\ NumbersOf(out.step.toks, StepContext(out.r, inp.fns)) = out.r.stack

\* 10 20 5 clamp of the tests, and a triple on which the two readings differ
C13_Witness ==
  /\ out.done /\ IsClampExpr
  /\ ClampArgs = <<Num(1), Num(0), Num(3)>>
  /\ ClampRest = <<9>>
  /\ out.r.stack = <<9, 3>>

(***************************************************************************)
(* History recall                                                          *)
(***************************************************************************)
\* the slot a recall token names: r and r,k name slot 1
SlotOf(t) == IF t.n = Absent THEN 1 ELSE t.n
RecallExists(t, results) ==
  /\ SlotOf(t) \in 1..Len(results)
  /\ t.m # Absent => t.m \in 1..Len(results[SlotOf(t)])

\* C14: a resolved rN pushed all values of the N-th latest history stack in
\* their order, a resolved rN,k pushed its k-th value only, r and r,k stand
\* for r1 and r1,k; a recall of a slot or element that does not exist aborts
\* the evaluation with the stack as it was before the token.
C14_Recall ==
  out.done =>
     /\ \A j \in 1..Len(Log) :
          Log[j].t.k = "r" =>
             /\ RecallExists(Log[j].t, inp.results)
             /\ Log[j].post =
                  IF Log[j].t.m = Absent
                  THEN Log[j].pre \o inp.results[SlotOf(Log[j].t)]
                  ELSE Append(Log[j].pre, inp.results[SlotOf(Log[j].t)][Log[j].t.m])
     /\ out.r.err = "recall" =>
          /\ out.r.eTok.k = "r"
          /\ ~RecallExists(out.r.eTok, inp.results)
          /\ out.r.eStack = out.r.ePre
          /\ out.r.stack = out.r.ePre
     /\ (out.r.eTok.k = "r" /\ out.r.err # "") => out.r.err = "recall"

C14_Witness ==
  /\ out.done /\ out.r.err = ""
  /\ inp.expr = <<Num(5), Tok("r", 2, Absent)>>
  /\ inp.results = HistSome
  /\ out.r.stack = <<5, 1, 2, 3>>

C14_WitnessAbort ==
  /\ out.done /\ out.r.err = "recall"
  /\ inp.expr = <<Num(5), Tok("r", 1, 2), Op("+")>>
  /\ inp.results = HistSome
  /\ out.r.stack = <<5>>

(***************************************************************************)
(* Expressions that do not read the environment                            *)
(***************************************************************************)
\* the evaluation of the expression of this call under another environment
Under(v) ==
  evaluateRPN(inp.expr, [vars |-> v.vars, sim |-> v.sim, params |-> v.params,
                         fns |-> inp.fns, results |-> v.results])
NoStateToken(toks) ==
  \A j \in 1..Len(toks) :
     /\ toks[j].k \notin {"s", "l", "sp", "lp", "r"}
     /\ ~IsFuncToken(toks[j], inp.fns)
NoReadToken(toks) == \A j \in 1..Len(toks) : toks[j].k \notin {"p", "simR"}

\* C15 as stated: an expression without register, recall and function tokens
\* ends with the same stack under every environment.
C15_PureOfLiterals ==
  (out.done /\ ~inp.pre /\ NoStateToken(inp.expr)) =>
     \A v \in Envs : Under(v).stack = out.r.stack

\* C15 as amended: an expression without register, recall, function and
\* parameter tokens and without SimVar reads has the same outcome and ends
\* with the same stack under every environment.
C15_PureOfLiteralsNoRead ==
  (out.done /\ ~inp.pre /\ NoStateToken(inp.expr) /\ NoReadToken(inp.expr)) =>
     \A v \in Envs : Under(v).stack = out.r.stack /\ Under(v).err = out.r.err

\* a SimVar write between two literals, evaluated under two environments that
\* differ in the registers, the SimVar map and the history
C15_Witness ==
  /\ out.done /\ out.r.err = ""
  /\ NoStateToken(inp.expr) /\ NoReadToken(inp.expr)
  /\ inp.expr = <<Num(5), Tok("simW", PrefA, 1), Num(2)>>
  /\ inp.results = <<>> /\ inp.params = <<>>
  /\ \E v \in Envs : v.results # inp.results /\ v.vars # inp.vars /\ v.sim # inp.sim
                     /\ Under(v).stack = <<2>>

(***************************************************************************)
(* Conditionals: one condition popped, one body run, resumption after the  *)
(* construct.  The braces are matched here by counting, not by             *)
(* findBlockEnd.                                                           *)
(***************************************************************************)
\* the closing brace of the block opened at p
CloseOf(toks, p) ==
  LET cs == { q \in (p + 1)..Len(toks) :
                toks[q].k = "}" /\ OpensBefore(toks, p + 1, q) = 0 }
  IN  IF cs = {} THEN 0 ELSE CHOOSE q \in cs : \A r \in cs : q <= r
ElseOf(toks, p) ==
  LET e == CloseOf(toks, p) + 1
  IN  IF e <= Len(toks) /\ toks[e].k = "else{" THEN e ELSE 0
\* the last closing brace of the construct whose if{ is at p
LastOf(toks, p) ==
  IF ElseOf(toks, p) # 0 THEN CloseOf(toks, ElseOf(toks, p)) ELSE CloseOf(toks, p)
IfBody(toks, p) == (p + 1)..(CloseOf(toks, p) - 1)
ElseBody(toks, p) ==
  IF ElseOf(toks, p) # 0 THEN (ElseOf(toks, p) + 1)..(LastOf(toks, p) - 1) ELSE {}
\* the tokens after position e that lie directly in the body that holds e
Following(toks, e) ==
  { q \in (e + 1)..Len(toks) :
      /\ OpensBefore(toks, e + 1, q) = 0
      /\ \A r \in (e + 1)..q : OpensBefore(toks, e + 1, r + 1) >= 0
      /\ toks[q].k # "else{" }
RunsAt(q) == { k \in 1..Len(Log) : Log[k].d = 0 /\ Log[k].pos = q }
WellNested(toks) ==
  /\ \A q \in 1..(Len(toks) + 1) : OpensBefore(toks, 1, q) >= 0
  /\ OpensBefore(toks, 1, Len(toks) + 1) = 0
  /\ \A q \in 1..Len(toks) :
       toks[q].k = "else{" => (q > 1 /\ toks[q - 1].k = "}")
DeepResult(c1, c2, c3) ==
  IF c1 = 0 THEN <<6, 7>>
  ELSE IF c2 = 0 THEN <<4, 5, 7>>
  ELSE IF c3 = 0 THEN <<2, 3, 5, 7>>
  ELSE <<1, 3, 5, 7>>

\* the constructs of the statement, and one nested three deep, succeed and
\* leave the values of the chosen bodies
LeavesStack(stk) == out.r.err = "" /\ out.r.stack = stk
C16_Examples ==
  out.done =>
    /\ out.evalExpr = PlainCond(1) => LeavesStack(<<11>>)
    /\ out.evalExpr = PlainCond(0) => LeavesStack(<<22>>)
    /\ \A c1 \in {0, 1}, c2 \in {0, 1}, c3 \in {0, 1} :
         out.evalExpr = Deep(c1, c2, c3) => LeavesStack(DeepResult(c1, c2, c3))

\* C16: in a successful evaluation of a well-nested expression, every if{
\* resolved (at any nesting depth of conditionals) pops exactly one value, no
\* token of the body not chosen runs, every token directly in the chosen body
\* runs exactly once, and every token that follows the construct's last '}'
\* directly in the enclosing body runs exactly once; '1 if{ 11 } else{ 22 }'
\* leaves [11], '0 if{ 11 } else{ 22 }' leaves [22], and the three-deep
\* construct leaves the values of the chosen bodies in order.
C16_ConditionalResumes ==
  /\ C16_Examples
  /\ (out.done /\ out.r.err = "" /\ WellNested(out.evalExpr)) =>
       \A j \in 1..Len(Log) :
         (Log[j].t.k = "if{" /\ Log[j].d = 0) =>
           LET toks == out.evalExpr
               p == Log[j].pos
               cond == Last(Log[j].pre)
               chosen == IF cond # 0 THEN IfBody(toks, p) ELSE ElseBody(toks, p)
               other == IF cond # 0 THEN ElseBody(toks, p) ELSE IfBody(toks, p)
           IN  /\ Log[j].post = Front(Log[j].pre)
               /\ \A q \in other : RunsAt(q) = {}
               /\ \A q \in DirectIn(toks, chosen) :
                     toks[q].k # "else{" => Cardinality(RunsAt(q)) = 1
               /\ \A q \in Following(toks, LastOf(toks, p)) :
                     Cardinality(RunsAt(q)) = 1
               /\ \A k \in 1..Len(Log) :
                     (Log[k].d = 0 /\ Log[k].pos \in Following(toks, LastOf(toks, p)))
                        => k > j

\* a construct with an else block nested three deep and followed by a token,
\* whose innermost condition is zero: the innermost else body, and the token
\* after each of the three constructs, have run
C16_Witness ==
  /\ out.done /\ out.r.err = ""
  /\ out.evalExpr = Deep(1, 1, 0)
  /\ out.r.stack = <<2, 3, 5, 7>>
  /\ Cardinality({ j \in 1..Len(Log) : Log[j].t.k = "if{" }) = 3

\* a nonzero condition with an else block and tokens after it: the else body
\* is skipped and the tokens after it run
C16_WitnessAfter ==
  /\ out.done /\ out.r.err = ""
  /\ out.evalExpr = PlainCond(1) \o <<Num(3), Op("+")>>
  /\ out.r.stack = <<14>>

(***************************************************************************)
(* Operator-style calls: parameter binding and the caller's stack          *)
(***************************************************************************)
\* the last n values of a stack and the values below them
TopN(stk, n) == SubSeq(stk, Len(stk) - n + 1, Len(stk))
BelowN(stk, n) == SubSeq(stk, 1, Len(stk) - n)
\* the entries of the body run by the call logged at j: those one call deeper
\* that follow it before the calling evaluation goes on
BodyEntries(j) ==
  { k \in (j + 1)..Len(Log) :
      /\ Log[k].d = Log[j].d + 1
      /\ \A r \in (j + 1)..k : Log[r].d > Log[j].d }
\* the stack of its evaluation once the token logged at j is done: for a call,
\* the stack without the arguments followed by what its body left
RECURSIVE LeftBy(_)
LeftBy(j) ==
  IF IsFuncToken(Log[j].t, inp.fns) /\ BodyEntries(j) # {}
  THEN Log[j].post \o LeftBy(CHOOSE k \in BodyEntries(j) : \A r \in BodyEntries(j) : r <= k)
  ELSE Log[j].post
\* the stack the body left: empty, or the stack after its last token
BodyStack(j) ==
  IF BodyEntries(j) = {} THEN <<>>
  ELSE LeftBy(CHOOSE k \in BodyEntries(j) : \A r \in BodyEntries(j) : r <= k)
\* the caller's stack after the call logged at j: the stack before the next
\* token of the caller, or the final stack
StackAfterCall(j) ==
  LET ks == { k \in (j + 1)..Len(Log) : Log[k].d = 0 }
  IN  IF ks = {} THEN out.r.stack
      ELSE Log[CHOOSE k \in ks : \A r \in ks : k <= r].pre
C17_Examples ==
  out.done =>
    /\ out.evalExpr = <<Num(50), Fn(FnAddPlain)>> => LeavesStack(<<140>>)
    /\ out.evalExpr = <<Num(50), Fn(FnAdd90)>> => LeavesStack(<<140>>)
    /\ out.evalExpr = <<Num(270), Num(90), Fn(FnAngleDiff)>> => LeavesStack(<<180>>)
    /\ out.evalExpr = <<Num(9), Num(1), Num(2), Num(3), Fn(FnPick)>>
         => LeavesStack(<<9, 3, 1, 2>>)
    /\ out.evalExpr = <<Num(9), Num(8), Num(1), Num(2), Fn(FnSpread)>>
         => LeavesStack(<<9, 8, 2, 1, 1, 0>>)

\* the call whose body the evaluation failed in
FailedCall ==
  LET js == { j \in 1..Len(Log) :
                Log[j].d = out.r.eD - 1 /\ IsFuncToken(Log[j].t, inp.fns) }
  IN  CHOOSE j \in js : \A r \in js : r <= j
\* no call fails at a parameter token of its body
C17_BindingSucceeds ==
  (out.done /\ out.r.err # "" /\ out.r.eD >= 1) =>
     inp.fns[Log[FailedCall].t.n].rpn[out.r.ePos].k # "p"

\* C17: for every call of a function of arity N made with N values on the
\* stack, each token pK (K <= N) of the body is resolved as the K-th of the N
\* topmost values of the caller's stack counted from the deepest (a call never
\* fails at a parameter token) and the body starts on an empty stack of its
\* own; after a successful call made by the top-level expression the caller's
\* stack is its stack without those N values followed by the stack the body
\* left; '50 add90' gives [140] and '270 90 angle_diff' gives [180].
C17_CallBinding ==
  /\ C17_Examples
  /\ C17_BindingSucceeds
  /\ (out.done /\ out.r.err = "") =>
       \A j \in 1..Len(Log) :
         IsFuncToken(Log[j].t, inp.fns) =>
           LET f == inp.fns[Log[j].t.n]
               args == TopN(Log[j].pre, f.params)
           IN  /\ Len(Log[j].pre) >= f.params
               /\ \A k \in BodyEntries(j) :
                    /\ (k = j + 1) => Log[k].pre = <<>>
                    /\ (f.rpn[Log[k].pos].k = "p" /\ f.rpn[Log[k].pos].n \in 1..f.params)
                          => /\ Log[k].t = Num(args[f.rpn[Log[k].pos].n])
                             /\ Log[k].post = Append(Log[k].pre, args[f.rpn[Log[k].pos].n])
               /\ f.rpn # <<>> => BodyEntries(j) # {}
               /\ Log[j].d = 0 =>
                    StackAfterCall(j) = BelowN(Log[j].pre, f.params) \o BodyStack(j)

(***************************************************************************)
(* SimVar reads and writes                                                 *)
(***************************************************************************)
\* what the claim says a read of prefix n, key m resolved at log entry j gives
ReadExpected(j, n, m) ==
  LET w == LatestWrite(Log, j, "simW", n, m)
  IN  IF w # 0 THEN Last(Log[w].pre)
      ELSE IF <<n, m>> \in DOMAIN inp.sim THEN inp.sim[<<n, m>>]
      ELSE IF n = PrefA /\ <<TopLevel, m>> \in DOMAIN inp.sim THEN inp.sim[<<TopLevel, m>>]
      ELSE 0
WrittenKeys ==
  { <<Log[j].t.n, Log[j].t.m>> : j \in { i \in 1..Len(Log) : Log[i].t.k = "simW" } }

\* C18: every read (P:KEY) pushes the value written last to the same prefix
\* and key, in this evaluation or before it; with none and prefix A the legacy
\* top-level entry KEY; otherwise 0; no evaluation fails at a read.  At the end
\* the map holds, for each prefix and key written, the value written last, and
\* every other entry unchanged.
C18_ReadLatestWrite ==
  out.done =>
    /\ \A j \in 1..Len(Log) :
         Log[j].t.k = "simR" =>
           Log[j].post = Append(Log[j].pre, ReadExpected(j, Log[j].t.n, Log[j].t.m))
    /\ out.r.err # "" => out.r.eTok.k # "simR"
    /\ DOMAIN out.r.sim = DOMAIN inp.sim \cup WrittenKeys
    /\ \A x \in DOMAIN out.r.sim :
         LET w == LatestWrite(Log, Len(Log) + 1, "simW", x[1], x[2])
         IN  out.r.sim[x] = IF w # 0 THEN Last(Log[w].pre) ELSE inp.sim[x]

(***************************************************************************)
(* dnor                                                                    *)
(***************************************************************************)
\* C19: dnor applied to an integer x pops it and pushes the one y with
\* 0 <= y < 360 that differs from x by a multiple of 360, for positive, zero
\* and negative x; '330 90 + dnor' gives [60] and '400 dnor' gives [40].
C19_DnorRange ==
  out.done =>
    /\ \A j \in 1..Len(Log) :
         (Log[j].t.k = "dnor" /\ Last(Log[j].pre) # NaN) =>
           LET x == Last(Log[j].pre)
               y == Last(Log[j].post)
           IN  /\ Log[j].post = Append(Front(Log[j].pre), y)
               /\ 0 <= y /\ y < 360
               /\ \E q \in -3..3 : x - y = 360 * q
    /\ out.evalExpr = <<Num(330), Num(90), Op("+"), Op("dnor")>> => LeavesStack(<<60>>)
    /\ out.evalExpr = <<Num(400), Op("dnor")>> => LeavesStack(<<40>>)
    /\ \A x \in Operands : out.evalExpr = <<Num(x), Op("dnor")>> => out.r.err = ""

\* a negative angle below one full turn: -725 becomes 355
C19_Witness ==
  /\ out.done /\ out.r.err = ""
  /\ out.evalExpr = <<Num(-725), Op("dnor")>>
  /\ out.r.stack = <<355>>

\* a multiple of 360 and an angle already in range
C19_WitnessInRange ==
  /\ out.done /\ out.r.err = ""
  /\ \/ out.evalExpr = <<Num(-360), Op("dnor")>> /\ out.r.stack = <<0>>
     \/ out.evalExpr = <<Num(359), Op("dnor")>> /\ out.r.stack = <<359>>

(***************************************************************************)
(* Binary operators                                                        *)
(***************************************************************************)
CompareOps == {">", "<", ">=", "<=", "==", "=", "!=", "<>"}
LogicOps == {"and", "&&", "or", "||"}
\* a op b as the operators are defined, a the left operand; the remainder has
\* the sign of a, and a remainder by zero is no number
RefRem(a, b) ==
  IF b = 0 THEN NaN
  ELSE CHOOSE r \in -(Abs(b) - 1)..(Abs(b) - 1) :
         /\ (a - r) % Abs(b) = 0
         /\ r = 0 \/ (r > 0) = (a > 0)
RefPow(a, b) ==
  CASE b = 0 -> 1 [] b = 1 -> a [] b = 2 -> a * a [] b = 3 -> a * a * a
    [] b = 4 -> a * a * a * a
RefBin(op, a, b) ==
  CASE op = "+" -> a + b
    [] op = "-" -> a - b
    [] op = "*" -> a * b
    [] op = "/" -> CHOOSE q \in -Abs(a)..Abs(a) : q * b = a
    [] op = "%" -> RefRem(a, b)
    [] op \in {"^", "pow"} -> RefPow(a, b)
    [] op = ">" -> IF a > b THEN 1 ELSE 0
    [] op = "<" -> IF a < b THEN 1 ELSE 0
    [] op = ">=" -> IF a >= b THEN 1 ELSE 0
    [] op = "<=" -> IF a <= b THEN 1 ELSE 0
    [] op \in {"==", "="} -> IF a = b THEN 1 ELSE 0
    [] op \in {"!=", "<>"} -> IF a # b THEN 1 ELSE 0
    [] op \in {"and", "&&"} -> IF a # 0 /\ b # 0 THEN 1 ELSE 0
    [] op \in {"or", "||"} -> IF a # 0 \/ b # 0 THEN 1 ELSE 0
    [] op = "min" -> IF a <= b THEN a ELSE b
    [] op = "max" -> IF a >= b THEN a ELSE b

\* C20: every binary operator resolved on a stack whose two topmost values are
\* the integers a (deeper) and b (top) replaces them by a op b with a as the
\* left operand and leaves the values below; the comparison and logical
\* operators give 1 or 0; the step reducer's table gives the same value and the
\* step reduction of 'a b op' ends in that value; '5 3 -' gives [2] and
\* '5 3 >' gives [1].
C20_BinaryOperators ==
  out.done =>
    /\ \A j \in 1..Len(Log) :
         (Log[j].t.k \in BIN_OPS /\ ~HasNaN(Log[j].pre)) =>
           LET pre == Log[j].pre
               a == pre[Len(pre) - 1]
               b == pre[Len(pre)]
               op == Log[j].t.k
           IN  /\ Log[j].post = Append(SubSeq(pre, 1, Len(pre) - 2), RefBin(op, a, b))
               /\ op \in CompareOps \cup LogicOps => Last(Log[j].post) \in {0, 1}
               /\ apply(op, <<a, b>>) = Last(Log[j].post)
    /\ (Len(out.evalExpr) = 3 /\ out.evalExpr[3].k \in BIN_OPS) =>
         /\ out.r.err = ""
         /\ out.step.err = ""
         /\ out.step.toks = <<StringToken(Last(out.r.stack))>>
    /\ out.evalExpr = <<Num(5), Num(3), Op("-")>> => LeavesStack(<<2>>)
    /\ out.evalExpr = <<Num(5), Num(3), Op(">")>> => LeavesStack(<<1>>)

\* a subtraction and a comparison of two different operands above another
\* value: the order of the operands shows in the result
C20_Witness ==
  /\ out.done /\ out.r.err = ""
  /\ out.evalExpr = <<Num(9), Num(5), Num(3), Op("-")>>
  /\ out.r.stack = <<9, 2>>

\* a logical operator on operands other than 0 and 1, and a remainder of a
\* negative dividend
C20_WitnessLogic ==
  /\ out.done /\ out.r.err = ""
  /\ \/ out.evalExpr = <<Num(-3), Num(20), Op("and")>> /\ out.r.stack = <<1>>
     \/ out.evalExpr = <<Num(-400), Num(360), Op("%")>> /\ out.r.stack = <<-40>>

(***************************************************************************)
(* Precompilation on its own: precompileTokens applied to token lists that *)
(* mix literals, a top-level p1 and function names, under function tables  *)
(* whose bodies reference each other in a chain, twice, not at all, or in  *)
(* a cycle.  The names of the tables are those of the function file; the   *)
(* bodies are the tables' own.                                             *)
(***************************************************************************)
ChainTable ==
  (FnPick :> [params |-> 1, rpn |-> <<Tok("p", 1, 0), Fn(FnSpread), Op("+")>>]) @@
  (FnSpread :> [params |-> 1, rpn |-> <<Fn(FnSeven), Tok("p", 1, 0)>>]) @@
  (FnSeven :> [params |-> 0, rpn |-> <<Num(7)>>])
TwiceTable ==
  (FnPick :> [params |-> 2, rpn |-> <<Fn(FnSpread), Tok("p", 2, 0), Fn(FnSpread)>>]) @@
  (FnSpread :> [params |-> 1, rpn |-> <<Tok("p", 1, 0), Tok("sp", 0, 0)>>]) @@
  (FnSeven :> [params |-> 0, rpn |-> <<>>])
SelfTable ==
  (FnPick :> [params |-> 0, rpn |-> <<Fn(FnPick), Num(1)>>]) @@
  (FnSeven :> [params |-> 0, rpn |-> <<Num(7)>>])
MutualTable ==
  (FnPick :> [params |-> 0, rpn |-> <<Fn(FnSpread)>>]) @@
  (FnSpread :> [params |-> 1, rpn |-> <<Tok("p", 1, 0), Fn(FnPick)>>]) @@
  (FnSeven :> [params |-> 0, rpn |-> <<Num(7)>>])
PrecTables == { ChainTable, TwiceTable, SelfTable, MutualTable, FuncFile, <<>> }

PrecVocab == { Num(5), Tok("p", 1, 0), Fn(FnPick), Fn(FnSpread), Fn(FnSeven) }
PrecInputs ==
  { [expr |-> e, fns |-> f] : e \in SeqsUpTo(PrecVocab, MaxLen), f \in PrecTables }

PrecInit ==
  /\ inp \in PrecInputs
  /\ out = [done |-> FALSE]
  /\ src = <<>> /\ tkI = 1 /\ tkToks = <<>> /\ tkpc = "done"
  /\ fileVars = <<>> /\ fileSim = EmptySim /\ fileHist = <<>>
  /\ last = [ran |-> FALSE] /\ prev = [ran |-> FALSE] /\ okLog = <<>>

\* the recursion is followed as deep as the table has functions
Precompile ==
  /\ ~out.done
  /\ out' = [done |-> TRUE,
             pre |-> PrecompileWithin(inp.expr, inp.fns, Cardinality(DOMAIN inp.fns))]
  /\ UNCHANGED <<inp, tokVars, cliVars>>

PrecNext == Precompile

PrecSpec == PrecInit /\ [][PrecNext]_vars

\* the functions a body names
Refs(fns, f) == { g \in DOMAIN fns : \E j \in 1..Len(fns[f].rpn) : fns[f].rpn[j] = Fn(g) }
RECURSIVE ReachIn(_, _, _)
ReachIn(fns, S, n) ==
  IF n = 0 THEN S
  ELSE ReachIn(fns, S \cup UNION { Refs(fns, g) : g \in S }, n - 1)
Acyclic(fns) ==
  \A f \in DOMAIN fns : f \notin ReachIn(fns, Refs(fns, f), Cardinality(DOMAIN fns))

RECURSIVE IsSubseq(_, _)
IsSubseq(a, b) ==
  IF a = <<>> THEN TRUE
  ELSE IF b = <<>> THEN FALSE
  ELSE IF Head(a) = Head(b) THEN IsSubseq(Tail(a), Tail(b))
  ELSE IsSubseq(a, Tail(b))

ParamsOf(toks) == SelectSeq(toks, LAMBDA t : t.k = "p")

PrecompileFixedPoint(expr, fns, o) ==
  /\ \A j \in 1..Len(o) : ~IsFuncToken(o[j], fns)
  /\ ParamsOf(o) = ParamsOf(expr)
  /\ IsSubseq(SelectSeq(expr, LAMBDA t : ~IsFuncToken(t, fns)), o)
  /\ precompileTokens(o, fns) = o

\* C21: under a function table whose bodies do not reference themselves,
\* directly or through other functions, precompileTokens returns (its
\* recursion goes no deeper than the table has functions); its output holds
\* no function name, holds exactly the pN tokens of its input and so none of
\* a body, holds the input's other tokens in their order, and is returned
\* unchanged when precompiled again.
C21_PrecompileFixedPoint ==
  (out.done /\ Acyclic(inp.fns)) =>
    /\ out.pre.ok
    /\ out.pre.toks = precompileTokens(inp.expr, inp.fns)
    /\ PrecompileFixedPoint(inp.expr, inp.fns, precompileTokens(inp.expr, inp.fns))

\* 'p1 pick 5' under the chain pick -> spread -> seven becomes 'p1 7 + 5'
C21_Witness ==
  /\ out.done /\ inp.fns = ChainTable
  /\ inp.expr = <<Tok("p", 1, 0), Fn(FnPick), Num(5)>>
  /\ out.pre.ok
  /\ out.pre.toks = <<Tok("p", 1, 0), Num(7), Op("+"), Num(5)>>

\* a body that names itself is followed without end
C21_WitnessCycle ==
  /\ out.done /\ inp.fns = SelfTable /\ ~Acyclic(inp.fns)
  /\ inp.expr = <<Fn(FnPick)>>
  /\ ~out.pre.ok

(***************************************************************************)
(* Conditional bodies: the stack and the session registers they run on     *)
(***************************************************************************)
\* the block that holds position q directly: its opening token, 0 at top level
FrameOf(toks, q) ==
  LET ps == { p \in 1..(q - 1) : toks[p].k \in {"if{", "else{"} /\ CloseOf(toks, p) > q }
  IN  IF ps = {} THEN 0 ELSE CHOOSE p \in ps : \A r \in ps : r <= p
\* the if{ of the construct the block opened at p belongs to
IfOf(toks, p) ==
  IF toks[p].k = "if{" THEN p
  ELSE CHOOSE i \in 1..p : toks[i].k = "if{" /\ ElseOf(toks, i) = p
\* the number of values on the stack when the body holding entry k was entered
BaseLen(k) ==
  LET f == FrameOf(out.evalExpr, Log[k].pos)
  IN  IF f = 0 THEN 0
      ELSE Len(Log[CHOOSE j \in RunsAt(IfOf(out.evalExpr, f)) : TRUE].post)
\* the number of stack values a token pops
Takes(t, fns) ==
  IF t.k \in BIN_OPS THEN 2
  ELSE IF t.k \in UN_OPS \cup {"s", "simW", "if{"} THEN 1
  ELSE IF t.k = "clamp" THEN 3
  ELSE IF IsFuncToken(t, fns) THEN fns[t.n].params
  ELSE 0
TopEntriesOf == { k \in 1..Len(Log) : Log[k].d = 0 }
\* the value the latest spN before entry k stored in the body that holds k
SessBefore(k) ==
  LET toks == out.evalExpr
      ws == { j \in 1..(k - 1) :
                /\ Log[j].d = 0 /\ Log[j].t.k = "sp" /\ Log[j].t.n = Log[k].t.n
                /\ FrameOf(toks, Log[j].pos) = FrameOf(toks, Log[k].pos) }
  IN  IF ws = {} THEN 0
      ELSE LET w == CHOOSE j \in ws : \A i \in ws : i <= j
           IN  IF Log[w].pre = <<>> THEN 0 ELSE Last(Log[w].pre)

\* no token of a body pops or reads a value that was on the stack when the
\* body was entered
C22_StackIsolated ==
  (out.done /\ WellNested(out.evalExpr)) =>
    \A k \in TopEntriesOf :
      /\ Takes(Log[k].t, inp.fns) <= Len(Log[k].pre) - BaseLen(k)
      /\ Log[k].t.k = "sp" => (Len(Log[k].pre) > BaseLen(k) \/ Log[k].pre = <<>>)

\* lpN pushes what the latest spN of the same body stored, 0 when there is none
C22_SessionIsolated ==
  (out.done /\ WellNested(out.evalExpr)) =>
    \A k \in TopEntriesOf :
      Log[k].t.k = "lp" => Log[k].post = Append(Log[k].pre, SessBefore(k))

\* lN and (P:KEY) after a store or write inside a body push the value stored
C22_WritesVisible ==
  (out.done /\ WellNested(out.evalExpr)) =>
    \A k \in TopEntriesOf :
      /\ Log[k].t.k = "l" =>
            Log[k].post = Append(Log[k].pre, RegBefore(Log, k, Log[k].t.n, inp.vars))
      /\ (Log[k].t.k = "simR" /\ LatestWrite(Log, k, "simW", Log[k].t.n, Log[k].t.m) # 0) =>
            Log[k].post = Append(Log[k].pre, ReadExpected(k, Log[k].t.n, Log[k].t.m))

\* C22: the body of a conditional branch runs on a stack and on session
\* registers of its own: none of its tokens pops or reads a value pushed
\* before the if{, an spN inside it is not seen by an lpN after the construct
\* (nor an spN before the construct by an lpN inside it), while its sN stores
\* and (>P:KEY) writes are seen by the tokens after the construct.
C22_BranchIsolated ==
  /\ C22_StackIsolated
  /\ C22_SessionIsolated
  /\ C22_WritesVisible

(***************************************************************************)
(* Operator-style calls: what the body and the caller see of each other    *)
(***************************************************************************)
\* the entries of the evaluation (the evaluateRPN call) that resolved entry k
SameEval(k) ==
  IF Log[k].d = 0 THEN { j \in 1..Len(Log) : Log[j].d = 0 }
  ELSE LET cs == { j \in 1..(k - 1) : Log[j].d = Log[k].d - 1 }
       IN  BodyEntries(CHOOSE j \in cs : \A r \in cs : r <= j)
\* the value the latest spN of the same evaluation stored before entry k
SessSeen(k) ==
  LET ws == { j \in SameEval(k) : j < k /\ Log[j].t.k = "sp" /\ Log[j].t.n = Log[k].t.n }
  IN  IF ws = {} THEN 0
      ELSE LET w == CHOOSE j \in ws : \A i \in ws : i <= j
           IN  IF Log[w].pre = <<>> THEN 0 ELSE Last(Log[w].pre)
FirstOf(S) == CHOOSE k \in S : \A r \in S : k <= r
IsPrefix(a, b) == Len(a) <= Len(b) /\ SubSeq(b, 1, Len(a)) = a

\* C23: a call of a function of arity N takes the N topmost values and leaves
\* the values below them as they are; its body starts on an empty stack and
\* with every session register 0 (lpN in a body pushes what an spN of the same
\* body stored before, else 0), and the caller's lpN after the call pushes what
\* the caller's own latest spN stored, whatever the body stored; lN and (P:KEY)
\* after a call push what the body stored last with sN and (>P:KEY).
C23_CallFrame ==
  out.done =>
    \A j \in 1..Len(Log) :
      /\ IsFuncToken(Log[j].t, inp.fns) =>
            /\ Log[j].post = BelowN(Log[j].pre, inp.fns[Log[j].t.n].params)
            /\ BodyEntries(j) # {} => Log[FirstOf(BodyEntries(j))].pre = <<>>
            /\ (Log[j].d = 0 /\ out.r.err = "") => IsPrefix(Log[j].post, StackAfterCall(j))
      /\ Log[j].t.k = "lp" => Log[j].post = Append(Log[j].pre, SessSeen(j))
      /\ Log[j].t.k = "l" =>
            LET w == LatestWrite(Log, j, "s", Log[j].t.n, 0)
            IN  (w # 0 /\ Log[w].d > Log[j].d) =>
                   Log[j].post = Append(Log[j].pre, Last(Log[w].pre))
      /\ Log[j].t.k = "simR" =>
            LET w == LatestWrite(Log, j, "simW", Log[j].t.n, Log[j].t.m)
            IN  (w # 0 /\ Log[w].d > Log[j].d) =>
                   Log[j].post = Append(Log[j].pre, Last(Log[w].pre))

\* '9 sp0 5 store lp0 l1 (A:1)': the body stored 5 in s1, sp0 and (>A:1) and
\* left one 5; the caller reads its own 9 from sp0 and the body's 5 from s1
\* and A:1
C23_Witness ==
  /\ out.done /\ out.r.err = ""
  /\ out.evalExpr = <<Num(9), Tok("sp", 0, 0), Num(5), Fn(FnStore), Tok("lp", 0, 0),
                      Tok("l", 1, 0), Tok("simR", PrefA, 1)>>
  /\ out.r.stack = <<9, 5, 9, 5, 5>>
  /\ \E k \in 1..Len(Log) : Log[k].d = 1 /\ Log[k].t.k = "sp" /\ Last(Log[k].pre) = 5

\* a body that reads lp0 after the caller stored 5 with sp0 reads 0
C23_WitnessBody ==
  /\ out.done /\ out.r.err = ""
  /\ \E j, k \in 1..Len(Log) :
       /\ j < k /\ Log[j].d = 0 /\ Log[k].d = 1
       /\ Log[j].t = Tok("sp", 0, 0) /\ Log[j].pre = <<5>>
       /\ Log[k].t = Tok("lp", 0, 0) /\ Log[k].post = Append(Log[k].pre, 0)

(***************************************************************************)
(* The step reducer one reduction at a time: each pass of while (true) of  *)
(* stepVerbose is one step.  out holds the token list, the passes made so  *)
(* far (the list before, the redex, the list after) and how the loop ended.*)
(***************************************************************************)
StepCtx == [vars |-> VarsSome, regs |-> FreshRegs, sim |-> SimSome, fns |-> FuncFile]

StepVocab ==
  { Num(1), Num(2), Op("+"), Op("not"), Fn(FnSeven), Fn(FnAdd90), Tok("s", 0, 0),
    Tok("l", 0, 0) }
\* the conditionals of the README and of test.ps1, with and without an else
\* block, with bodies leaving none, one or several values, nested, followed
\* by tokens, failing in the body, and with a missing brace
StepConds ==
  { PlainCond(1), PlainCond(0), PlainCond(1) \o <<Num(3), Op("+")>>,
    <<Num(0), IfTok, Num(11), CloseTok>>,
    <<Num(1), IfTok, CloseTok>>,
    <<Num(4), Num(0), IfTok, Num(11), CloseTok, Num(5), Op("+")>>,
    <<Num(1), IfTok, Num(2), Tok("simW", PrefA, 1), Num(22), Num(100), CloseTok,
      ElseTok, Num(3), Tok("simW", PrefA, 1), Num(33), Num(100), CloseTok>>,
    <<Num(0), IfTok, Num(2), Tok("simW", PrefA, 1), Num(22), Num(100), CloseTok,
      ElseTok, Num(3), Tok("simW", PrefA, 1), Num(33), Num(100), CloseTok>>,
    <<Num(1), IfTok, Num(2), Tok("s", 0, 0), Num(22), Num(100), Fn(FnAdd90), CloseTok,
      ElseTok, Num(3), Num(33), Num(100), Fn(FnAdd90), CloseTok, Op("+")>>,
    <<Num(1), IfTok, Num(0), IfTok, Num(5), CloseTok, ElseTok, Num(6), Num(7), CloseTok,
      CloseTok, ElseTok, Num(8), CloseTok>>,
    <<Num(2), Num(1), Op("-"), IfTok, Num(11), CloseTok, ElseTok, Num(22), CloseTok>>,
    <<Tok("l", 2, 0), IfTok, Num(11), CloseTok, ElseTok, Num(22), Num(23), CloseTok>>,
    <<IfTok, Num(1), Num(2), Op("+"), CloseTok>>,
    <<Num(5), Num(1), IfTok, Num(1), Op("+"), CloseTok>>,
    <<Num(1), IfTok, Num(2)>>,
    <<Num(1), IfTok, Num(2), CloseTok, ElseTok, Num(3)>> }
StepExamples ==
  { <<Num(1), Num(2), Num(3), Num(4), Op("+"), Op("+"), Op("+")>>,
    <<Num(9), Num(5), Op("-"), Num(2), Op("*")>>,
    <<Num(10), Num(20), Num(5), Op("clamp")>>,
    <<Num(270), Num(90), Fn(FnAngleDiff)>>,
    <<Num(3), Fn(FnDup), Op("+")>>,
    <<Num(5), Fn(FnStore), Tok("l", 1, 0)>>,
    <<Fn(FnSeven), Num(1), Num(2), Op("+")>>,
    <<Num(1), Tok("s", 0, 0), Num(2), Op("+")>>,
    <<Num(5), Num(0), Op("%"), Fn(FnAdd90)>>,
    <<Num(5), Num(0), Op("%"), Num(1), Op("+")>> }
StepInputs ==
  { [expr |-> e, ctx |-> StepCtx] :
      e \in SeqsUpTo(StepVocab, MaxLen) \cup StepConds \cup StepExamples }

NoPass == <<>>

StepInit ==
  /\ inp \in StepInputs
  /\ out = [toks |-> inp.expr, trace |-> NoPass, ended |-> "", err |-> ""]
  /\ src = <<>> /\ tkI = 1 /\ tkToks = <<>> /\ tkpc = "done"
  /\ fileVars = <<>> /\ fileSim = EmptySim /\ fileHist = <<>>
  /\ last = [ran |-> FALSE] /\ prev = [ran |-> FALSE] /\ okLog = <<>>

\* a pass that finds a redex and reduces it; if (toks.length===1) break
StepPass ==
  /\ out.ended = ""
  /\ LET r == StepScan(out.toks, 1, <<>>, inp.ctx) IN
     /\ r.found
     /\ LET red == StepReduce(out.toks, r, inp.ctx) IN
        /\ red.err = ""
        /\ out' = [toks |-> red.toks,
                   trace |-> Append(out.trace,
                                    [from |-> out.toks, r |-> r, to |-> red.toks,
                                     which |-> red.which]),
                   ended |-> IF Len(red.toks) = 1 THEN "one" ELSE "",
                   err |-> ""]
  /\ UNCHANGED <<inp, tokVars, cliVars>>

\* a pass that finds no reducible token: if (highlightStart === -1) break
StepStop ==
  /\ out.ended = ""
  /\ LET r == StepScan(out.toks, 1, <<>>, inp.ctx) IN ~r.found /\ ~r.thrown
  /\ out' = [out EXCEPT !.ended = "none"]
  /\ UNCHANGED <<inp, tokVars, cliVars>>

\* a pass that throws: findBlockEnd in the scan, or the sub-evaluation
StepThrow ==
  /\ out.ended = ""
  /\ LET r == StepScan(out.toks, 1, <<>>, inp.ctx) IN
       \/ r.thrown /\ out' = [out EXCEPT !.ended = "thrown", !.err = "brace"]
       \/ /\ r.found
          /\ StepReduce(out.toks, r, inp.ctx).err # ""
          /\ out' = [out EXCEPT !.ended = "thrown",
                                !.err = StepReduce(out.toks, r, inp.ctx).err]
  /\ UNCHANGED <<inp, tokVars, cliVars>>

StepNext == StepPass \/ StepStop \/ StepThrow

StepSpec == StepInit /\ [][StepNext]_vars

(***************************************************************************)
(* The redex of a step                                                     *)
(***************************************************************************)
Passes == 1..Len(out.trace)
IsOperatorToken(t, fns) ==
  t.k \in UN_OPS \cup BIN_OPS \cup {"clamp", "if{"} \/ IsFuncToken(t, fns)
\* the value tokens left of position q
ValuesLeft(T, q) == { p \in 1..(q - 1) : tokenIsValue(T[p]) }
\* an operator, function or conditional token of arity k with at least k
\* value tokens to its left
Reducible(T, q, fns) ==
  IsOperatorToken(T[q], fns) /\ Cardinality(ValuesLeft(T, q)) >= arity(T[q], fns)
\* the k value tokens nearest to position q on its left
OperandsOf(T, q, k) ==
  { p \in ValuesLeft(T, q) : Cardinality({ x \in ValuesLeft(T, q) : x > p }) < k }

\* the redex is the leftmost reducible token
C24_Leftmost ==
  \A n \in Passes :
    LET T == out.trace[n].from
        i == out.trace[n].r.op
    IN  /\ Reducible(T, i, inp.ctx.fns)
        /\ \A q \in 1..(i - 1) : ~Reducible(T, q, inp.ctx.fns)

\* its operands are the k value tokens queued last, and for an operator or a
\* function the range from the first operand through the token becomes one
\* token
C24_Operands ==
  \A n \in Passes :
    LET T == out.trace[n].from
        r == out.trace[n].r
        to == out.trace[n].to
        ops == OperandsOf(T, r.op, arity(T[r.op], inp.ctx.fns))
    IN  /\ Len(r.nums) = arity(T[r.op], inp.ctx.fns)
        /\ Cardinality(ops) = Len(r.nums)
        /\ \A p \in ops :
             /\ r.hs <= p
             /\ r.nums[Cardinality({ x \in ops : x <= p })] = tokenValue(T[p], inp.ctx)
        /\ r.hs \in ops
        /\ T[r.op].k # "if{" =>
             /\ Len(to) = Len(T) - (r.op - r.hs)
             /\ SubSeq(to, 1, r.hs - 1) = SubSeq(T, 1, r.hs - 1)
             /\ SubSeq(to, r.hs + 1, Len(to)) = SubSeq(T, r.op + 1, Len(T))

\* the reductions of '1 2 3 4 + + +'
C24_Example ==
  (inp.expr = <<Num(1), Num(2), Num(3), Num(4), Op("+"), Op("+"), Op("+")>>
     /\ out.ended # "") =>
    /\ out.ended = "one"
    /\ [n \in Passes |-> <<out.trace[n].r.nums, out.trace[n].to[out.trace[n].r.hs]>>]
         = << <<<<3, 4>>, Num(7)>>, <<<<2, 7>>, Num(9)>>, <<<<1, 9>>, Num(10)>> >>

\* C24: in every step of the step reducer the redex is the leftmost operator,
\* function or conditional token of arity k with at least k value tokens to
\* its left, its operands are the k value tokens queued last, and for an
\* operator or a function the range from the first operand through the token
\* is replaced by one token; '1 2 3 4 + + +' is reduced by '3 4 + = 7',
\* '2 7 + = 9', '1 9 + = 10'.
C24_LeftmostRedex ==
  /\ C24_Leftmost
  /\ C24_Operands
  /\ C24_Example

(***************************************************************************)
(* The reduction of a conditional                                          *)
(***************************************************************************)
CondPasses == { n \in Passes : out.trace[n].from[out.trace[n].r.op].k = "if{" }
\* the value token queued last before position q
CondAt(T, q) == CHOOSE p \in ValuesLeft(T, q) : \A x \in ValuesLeft(T, q) : x <= p
\* the tokens of the body the condition value c chooses in the construct at p
ChosenBody(T, p, c) ==
  IF c # 0 THEN SubSeq(T, p + 1, CloseOf(T, p) - 1)
  ELSE IF ElseOf(T, p) # 0 THEN SubSeq(T, ElseOf(T, p) + 1, LastOf(T, p) - 1)
  ELSE <<>>
Reported(T, p, c) == IF c # 0 THEN "IF" ELSE IF ElseOf(T, p) # 0 THEN "ELSE" ELSE "NONE"
\* the values the body leaves when evaluated on its own
LeftByBody(body) == evaluateRPN(body, StepSubOptions(inp.ctx)).stack
\* the pass that reduced the token list T, if it is a pass of the trace
ReducedTo(T, to, which) ==
  \E n \in Passes :
    out.trace[n].from = T /\ out.trace[n].to = to /\ out.trace[n].which = which

TestIf(c) ==
  <<Num(c), IfTok, Num(2), Tok("simW", PrefA, 1), Num(22), Num(100), CloseTok,
    ElseTok, Num(3), Tok("simW", PrefA, 1), Num(33), Num(100), CloseTok>>

C25_Examples ==
  out.ended # "" =>
    /\ inp.expr = PlainCond(1) => ReducedTo(inp.expr, <<Num(11)>>, "IF")
    /\ inp.expr = PlainCond(0) => ReducedTo(inp.expr, <<Num(22)>>, "ELSE")
    /\ inp.expr = TestIf(1) => ReducedTo(inp.expr, <<Num(22), Num(100)>>, "IF")
    /\ inp.expr = TestIf(0) => ReducedTo(inp.expr, <<Num(33), Num(100)>>, "ELSE")
    /\ inp.expr = <<Num(0), IfTok, Num(11), CloseTok>> => ReducedTo(inp.expr, <<>>, "NONE")
    /\ inp.expr = <<Num(1), IfTok, CloseTok>> => ReducedTo(inp.expr, <<>>, "IF")
    /\ inp.expr = <<Num(4), Num(0), IfTok, Num(11), CloseTok, Num(5), Op("+")>>
         => ReducedTo(inp.expr, <<Num(4), Num(5), Op("+")>>, "NONE")

\* C25: a step that reduces a conditional replaces the range from the
\* condition token through the closing brace of the if block, or of the else
\* block that follows it directly, by the values the chosen body leaves when
\* evaluated on its own, all of them and in order (none when no branch is
\* taken or the body leaves nothing), and reports IF for a nonzero condition,
\* ELSE for zero with an else block, NONE otherwise.
C25_ConditionalReduction ==
  /\ C25_Examples
  /\ \A n \in CondPasses :
       LET T == out.trace[n].from
           p == out.trace[n].r.op
           c == CondAt(T, p)
           v == tokenValue(T[c], inp.ctx)
           left == LeftByBody(ChosenBody(T, p, v))
       IN  /\ out.trace[n].to =
                SubSeq(T, 1, c - 1) \o [j \in 1..Len(left) |-> Num(left[j])]
                  \o SubSeq(T, LastOf(T, p) + 1, Len(T))
           /\ out.trace[n].which = Reported(T, p, v)

\* the construct of test.ps1 with condition 1: two values replace 13 tokens
C25_Witness ==
  /\ out.ended = "none"
  /\ inp.expr = TestIf(1)
  /\ out.toks = <<Num(22), Num(100)>>
  /\ Len(out.trace) = 1 /\ out.trace[1].which = "IF"

\* a zero condition without an else block: the construct leaves no token
C25_WitnessNone ==
  /\ out.ended # ""
  /\ inp.expr = <<Num(4), Num(0), IfTok, Num(11), CloseTok, Num(5), Op("+")>>
  /\ out.trace[1].which = "NONE"
  /\ out.toks = <<Num(9)>>

(***************************************************************************)
(* The end of the reduction                                                *)
(***************************************************************************)
\* the number of operator, function and conditional tokens of a list
OpCount(T, fns) == Cardinality({ q \in 1..Len(T) : IsOperatorToken(T[q], fns) })
AnyReducible(T, fns) == \E q \in 1..Len(T) : Reducible(T, q, fns)

\* every step lowers the number of operator, function and conditional tokens,
\* so there are no more steps than the input has such tokens
C26_Decreases ==
  /\ \A n \in Passes :
       OpCount(out.trace[n].to, inp.ctx.fns) < OpCount(out.trace[n].from, inp.ctx.fns)
  /\ Len(out.trace) <= OpCount(inp.expr, inp.ctx.fns)

\* no step is made on a list of one token or without a reducible token
C26_NoStepAfter ==
  \A n \in Passes :
    Len(out.trace[n].from) # 1 /\ AnyReducible(out.trace[n].from, inp.ctx.fns)

\* the reducer ends on a list of one token or without a reducible token
C26_EndsWhen ==
  out.ended \in {"one", "none"} =>
    (Len(out.toks) = 1 \/ ~AnyReducible(out.toks, inp.ctx.fns))

\* C26: the step reducer makes finitely many steps, at most as many as the
\* input has operator, function and conditional tokens, because every step
\* lowers their number; it makes no step on a list of one token or without a
\* reducible token, and when it ends one token remains or no token is
\* reducible.
C26_StepsTerminate ==
  /\ C26_Decreases
  /\ C26_NoStepAfter
  /\ C26_EndsWhen

(***************************************************************************)
(* rpn_without_save.js: the evaluator of the variant without persistence   *)
(* of SimVars and history.  Its resolveToken(t, idx) gets the index of the *)
(* token in the list runTokens was given, and its if{ case scans the       *)
(* token list of the whole expression from that index.  A recursion that   *)
(* does not end exhausts the call stack (a RangeError): MaxFrames is the   *)
(* number of nested runTokens calls after which the model reports it.      *)
(***************************************************************************)
MaxFrames == 6

WsBinOps ==
  { "+", "-", "*", "%", ">", "<", ">=", "<=", "==", "!=", "and", "or", "min", "max" }
WsUnOps == { "not", "abs", "round", "floor", "ceil" }

\* the for loop that collects thenBlock from tokens[i] on
RECURSIVE WsThenBlock(_, _, _, _)
WsThenBlock(tokens, i, depth, acc) ==
  IF i > Len(tokens) THEN [blk |-> acc, i |-> i]
  ELSE LET tok == tokens[i] IN
       IF tok.k = "if{" THEN WsThenBlock(tokens, i + 1, depth + 1, Append(acc, tok))
       ELSE IF tok.k = "}" THEN
         IF depth = 0 THEN [blk |-> acc, i |-> i + 1]
         ELSE WsThenBlock(tokens, i + 1, depth - 1, Append(acc, tok))
       ELSE IF tok.k = "else{" /\ depth = 0 THEN [blk |-> acc, i |-> i]
       ELSE WsThenBlock(tokens, i + 1, depth, Append(acc, tok))

\* the for loop that collects elseBlock from tokens[k] on
RECURSIVE WsElseBlock(_, _, _, _)
WsElseBlock(tokens, k, d, acc) ==
  IF k > Len(tokens) THEN [blk |-> acc, i |-> k]
  ELSE LET tok == tokens[k] IN
       IF tok.k = "if{" THEN WsElseBlock(tokens, k + 1, d + 1, Append(acc, tok))
       ELSE IF tok.k = "}" THEN
         IF d = 0 THEN [blk |-> acc, i |-> k + 1]
         ELSE WsElseBlock(tokens, k + 1, d - 1, Append(acc, tok))
       ELSE WsElseBlock(tokens, k + 1, d, Append(acc, tok))

WsThrow(st, kind) == [st EXCEPT !.err = kind]

RECURSIVE WsRunTokens(_, _, _, _, _)
RECURSIVE WsResolveToken(_, _, _, _, _)

\* let i = 0; while (i < toks.length) i = resolveToken(toks[i], i)
WsRunTokens(toks, i, st, tokens, frames) ==
  IF st.err # "" \/ i > Len(toks) THEN st
  ELSE LET r == WsResolveToken(toks[i], i, st, tokens, frames)
       IN  WsRunTokens(toks, r.next, r.st, tokens, frames)

WsResolveToken(t, idx, st, tokens, frames) ==
  LET pre == st.stack
      n == Len(pre)
      next(s) == [next |-> idx + 1, st |-> s]
  IN
  IF t.k = "num" THEN next([st EXCEPT !.stack = Append(pre, t.n)])
  ELSE IF t.k \in {"s", "l", "sp", "lp"} /\ t.n \notin 0..(NumRegs - 1)
  THEN next(WsThrow(st, "range"))
  ELSE IF t.k = "sp" THEN next([st EXCEPT !.regs = StoreReg(@, t.n, pre)])
  ELSE IF t.k = "lp" THEN next([st EXCEPT !.stack = Append(pre, LoadReg(st.regs, t.n))])
  ELSE IF t.k = "s" THEN
    IF n = 0 THEN next(WsThrow(st, "underflow"))
    ELSE next([st EXCEPT !.vars = ArrSet(@, t.n, Last(pre)), !.stack = Front(pre)])
  ELSE IF t.k = "l" THEN next([st EXCEPT !.stack = Append(pre, ArrGet(st.vars, t.n))])
  ELSE IF t.k \in WsBinOps THEN
    IF n < 2 THEN next(WsThrow(st, "underflow"))
    ELSE next([st EXCEPT !.stack =
                 Append(SubSeq(pre, 1, n - 2), EvalBin(t.k, pre[n - 1], pre[n]))])
  ELSE IF t.k \in WsUnOps THEN
    IF n < 1 THEN next(WsThrow(st, "underflow"))
    ELSE next([st EXCEPT !.stack = Append(Front(pre), EvalUn(t.k, pre[n]))])
  ELSE IF t.k = "if{" THEN
    IF n = 0 THEN next(WsThrow(st, "underflow"))
    ELSE LET cond == truthy(Last(pre))
             th == WsThenBlock(tokens, idx + 1, 0, <<>>)
             hasElse == th.i <= Len(tokens) /\ tokens[th.i].k = "else{"
             el == IF hasElse THEN WsElseBlock(tokens, th.i + 1, 0, <<>>)
                   ELSE [blk |-> <<>>, i |-> th.i]
             st1 == [st EXCEPT !.stack = Front(pre)]
         IN  [next |-> el.i,
              st |-> IF frames = 0 THEN WsThrow(st1, "overflow")
                     ELSE WsRunTokens(IF cond THEN th.blk ELSE el.blk, 1, st1, tokens,
                                      frames - 1)]
  ELSE next(WsThrow(st, "unknown"))

\* evaluateRPN(src, options) of rpn_without_save.js
WsEvaluateRPN(tokens, opts) ==
  WsRunTokens(tokens, 1, [stack |-> <<>>, regs |-> FreshRegs, vars |-> opts.vars, err |-> ""],
              tokens, MaxFrames)

\* constructs with a construct nested in the if body: pre c1 if{ A c2 if{ 5 }
\* [else{ 8 }] B } [else{ 9 }] post, and constructs that are not nested or
\* nested in the else body
Opt(x) == { <<>>, x }
NestExprs ==
  { pre \o <<Num(c1), IfTok>> \o A \o <<Num(c2), IfTok, Num(5), CloseTok>> \o e2 \o B
      \o <<CloseTok>> \o e1 \o post :
      pre \in Opt(<<Num(7)>>), c1 \in {0, 1}, A \in Opt(<<Num(3)>>), c2 \in {0, 1},
      e2 \in Opt(<<ElseTok, Num(8), CloseTok>>), B \in Opt(<<Num(6)>>),
      e1 \in Opt(<<ElseTok, Num(9), CloseTok>>), post \in Opt(<<Num(4)>>) }
FlatExprs ==
  { PlainCond(0), PlainCond(1), PlainCond(1) \o <<Num(3), Op("+")>>,
    <<Num(1), IfTok, Num(5), CloseTok, Num(1), IfTok, Num(6), CloseTok>>,
    <<Num(1), IfTok, Num(5), Tok("s", 0, 0), CloseTok, Tok("l", 0, 0)>>,
    <<Num(0), IfTok, Num(1), CloseTok, ElseTok, Num(1), IfTok, Num(5), CloseTok,
      Num(6), CloseTok>>,
    <<Num(5), Num(1), IfTok, Num(1), Op("+"), CloseTok>> }
WsInputs ==
  { [expr |-> e, vars |-> VarsSome] :
      e \in NestExprs \cup FlatExprs
            \cup { Deep(c1, c2, c3) : c1 \in {0, 1}, c2 \in {0, 1}, c3 \in {0, 1} } }

WsInit ==
  /\ inp \in WsInputs
  /\ out = [done |-> FALSE]
  /\ src = <<>> /\ tkI = 1 /\ tkToks = <<>> /\ tkpc = "done"
  /\ fileVars = <<>> /\ fileSim = EmptySim /\ fileHist = <<>>
  /\ last = [ran |-> FALSE] /\ prev = [ran |-> FALSE] /\ okLog = <<>>

\* the same expression given to both evaluators
WsEvaluate ==
  /\ ~out.done
  /\ out' = [done |-> TRUE,
             ws |-> WsEvaluateRPN(inp.expr, [vars |-> inp.vars]),
             r |-> evaluateRPN(inp.expr,
                               [vars |-> inp.vars, sim |-> EmptySim, params |-> <<>>,
                                fns |-> <<>>, results |-> <<>>])]
  /\ UNCHANGED <<inp, tokVars, cliVars>>

WsNext == WsEvaluate

WsSpec == WsInit /\ [][WsNext]_vars

\* C27: in rpn_without_save.js the evaluation of a well-nested expression,
\* with a conditional nested in a taken branch or not, ends without error and
\* with the stack the evaluator of rpn.js (part_002) ends with: the nested
\* body has run once and the tokens after it in the outer body have run.
C27_NestedMatchesLatest ==
  (out.done /\ WellNested(inp.expr) /\ out.r.err = "") =>
    /\ out.ws.err = ""
    /\ out.ws.stack = out.r.stack

(***************************************************************************)
(* Invocations that write registers and SimVars: of rpn.js, with and       *)
(* without --step, and of rpn_without_save.js, on the same state file      *)
(***************************************************************************)
MaxRuns == 2

CountUp == <<Tok("l", 0, 0), Num(1), Op("+"), Tok("s", 0, 0)>>

\* expressions that write and end, in a conditional body, in a function body
\* or at top level, expressions that fail after they wrote, and a recall
PersistExprs ==
  { <<Num(5), Tok("s", 0, 0)>>, CountUp, <<Num(1), IfTok>> \o CountUp \o <<CloseTok>>,
    <<Num(7), SimA1>>, <<Num(9), Fn(FnStore)>>, <<Num(3), Num(4), Op("+")>>,
    <<Tok("r", 1, Absent)>>,
    <<Num(6), Tok("s", 0, 0), Num(8), SimA1, Op("+")>>,
    <<Num(6), Fn(FnStore), Op("+")>>,
    <<Num(1), IfTok, Num(4), Tok("s", 2, 0), Op("+"), CloseTok>> }

WsPersistExprs ==
  { <<Num(5), Tok("s", 0, 0)>>, <<Num(4), Tok("s", 1, 0), Num(2)>>,
    <<Num(6), Tok("s", 0, 0), Op("+")>>, <<Num(6), Tok("s", 0, 0), Tok("l", 10, 0)>> }

\* node rpn.js "<expr>" [--step]
PersistRun ==
  /\ Len(okLog) < MaxRuns
  /\ \E e \in PersistExprs, doStep \in BOOLEAN : Cli(e, FALSE, doStep)

\* node rpn_without_save.js "<expr>": saveVars after evaluateRPN, in the try
WsCli(expr, ws) ==
  /\ fileVars' = SavedWhen(ws.err = "", ws.vars, fileVars)
  /\ last' = [ran |-> TRUE, expr |-> expr, doPre |-> FALSE, doStep |-> FALSE,
              ok |-> ws.err = "", pure |-> FALSE, stack |-> ws.stack, log |-> <<>>,
              step |-> NoStep, hist0 |-> fileHist, vars0 |-> fileVars, sim0 |-> fileSim,
              mem |-> [vars |-> ws.vars, sim |-> fileSim, dirty |-> FALSE]]
  /\ prev' = IF last.ran THEN [ran |-> TRUE, ok |-> last.ok, pure |-> last.pure]
                         ELSE [ran |-> FALSE]
  /\ UNCHANGED <<tokVars, evalVars, fileSim, fileHist, okLog>>

WsPersistRun ==
  \E e \in WsPersistExprs : WsCli(e, WsEvaluateRPN(e, [vars |-> loadVars(fileVars)]))

PersistNext == PersistRun \/ WsPersistRun

PersistSpec == CliInit /\ [][PersistNext]_vars

C28_WitnessVariant ==
  /\ last.ran /\ ~last.ok /\ last.expr \in WsPersistExprs \ PersistExprs
  /\ last.mem.vars # loadVars(last.vars0)
  /\ fileVars # VarsZero

\* what the invocation `last` saves when it is run without --step: the state
\* of an evaluation of the same tokens on what the files held before it
PlainRun ==
  evaluateRPN(last.expr,
              [vars |-> loadVars(last.vars0), sim |-> loadSimvars(last.sim0),
               params |-> <<>>, fns |-> FuncFile, results |-> loadResults(last.hist0)])

\* C30: after a successful invocation with --step the register array and the
\* SimVar map handed to the step reducer hold what the evaluation left in
\* them, whether the trace ended or threw, and the files hold what an
\* invocation without --step saves: each write has taken effect once.
C30_StepKeepsState ==
  (last.ran /\ last.ok /\ last.doStep) =>
     /\ last.step.ctx.vars = last.mem.vars
     /\ last.step.ctx.sim = last.mem.sim
     /\ fileVars = PlainRun.vars
     /\ fileSim = IF PlainRun.dirty THEN PlainRun.sim ELSE last.sim0

\* the step trace has reduced a conditional whose body adds 1 to register 0
C30_Witness ==
  /\ last.ran /\ last.ok /\ last.doStep /\ last.step.err = ""
  /\ last.expr = <<Num(1), IfTok>> \o CountUp \o <<CloseTok>>
  /\ ArrGet(fileVars, 0) = ArrGet(loadVars(last.vars0), 0) + 1
  /\ ArrGet(fileVars, 0) > 1

\* the step trace has reduced a call of a function that writes a register
\* and a SimVar
C30_WitnessCall ==
  /\ last.ran /\ last.ok /\ last.doStep /\ last.step.err = ""
  /\ last.expr = <<Num(9), Fn(FnStore)>>
  /\ last.step.toks = <<Num(9)>>
  /\ ArrGet(fileVars, 1) = 9 /\ ArrGet(loadVars(last.vars0), 1) # 9
  /\ last.mem.sim # loadSimvars(last.sim0)

(***************************************************************************)
(* The session store: a stack of literals, then spN lpN, given to the      *)
(* evaluator of rpn.js and to that of rpn_without_save.js; with seed the   *)
(* register holds 9 and the stack is empty before the literals             *)
(***************************************************************************)
MaxStack == 2

StoreValues == { 0, 5, -3 }

Lits(stack) == [j \in 1..Len(stack) |-> Num(stack[j])]

StoreExpr(stack, seed, n) ==
  (IF seed THEN <<Num(9), Tok("sp", n, 0), Tok("s", 0, 0)>> ELSE <<>>)
    \o Lits(stack) \o <<Tok("sp", n, 0), Tok("lp", n, 0)>>

StoreInputs ==
  { [stack |-> stk, seed |-> seed, n |-> n, expr |-> StoreExpr(stk, seed, n)] :
      stk \in SeqsUpTo(StoreValues, MaxStack), seed \in BOOLEAN, n \in 0..(NumRegs - 1) }

StoreInit ==
  /\ inp \in StoreInputs
  /\ out = [done |-> FALSE]
  /\ src = <<>> /\ tkI = 1 /\ tkToks = <<>> /\ tkpc = "done"
  /\ fileVars = <<>> /\ fileSim = EmptySim /\ fileHist = <<>>
  /\ last = [ran |-> FALSE] /\ prev = [ran |-> FALSE] /\ okLog = <<>>

StoreEvaluate ==
  /\ ~out.done
  /\ out' = [done |-> TRUE,
             ws |-> WsEvaluateRPN(inp.expr, [vars |-> VarsZero]),
             r |-> evaluateRPN(inp.expr,
                               [vars |-> VarsZero, sim |-> EmptySim, params |-> <<>>,
                                fns |-> <<>>, results |-> <<>>])]
  /\ UNCHANGED <<inp, tokVars, cliVars>>

StoreNext == StoreEvaluate

StoreSpec == StoreInit /\ [][StoreNext]_vars

\* the value spN has to store: the top of the stack, 0 on the empty stack
TopOrZero(stack) == IF stack = <<>> THEN 0 ELSE Last(stack)

\* C29: spN with N in 0..9 does not fail and leaves the stack as it is; after
\* it register N holds the top of the stack, or 0 when the stack is empty
\* (the lpN that follows pushes that value), and the other session registers
\* are as before, in rpn.js and in rpn_without_save.js.
C29_SessionStore ==
  out.done =>
    LET v == TopOrZero(inp.stack)
        k == Len(Log) - 1
    IN  /\ out.r.err = "" /\ out.ws.err = ""
        /\ Log[k].t = Tok("sp", inp.n, 0)
        /\ Log[k].pre = inp.stack /\ Log[k].post = inp.stack
        /\ out.r.stack = Append(inp.stack, v)
        /\ out.ws.stack = Append(inp.stack, v)
        /\ \A m \in 0..(NumRegs - 1) :
             /\ ArrGet(out.r.regs, m) = IF m = inp.n THEN v ELSE 0
             /\ ArrGet(out.ws.regs, m) = IF m = inp.n THEN v ELSE 0
        /\ Len(out.r.regs) = NumRegs /\ Len(out.ws.regs) = NumRegs

\* spN on the empty stack, with 9 in the register before it
C29_Witness ==
  /\ out.done /\ inp.seed /\ inp.stack = <<>> /\ inp.n = NumRegs - 1
  /\ out.r.stack = <<0>> /\ out.ws.stack = <<0>>
  /\ ArrGet(out.r.regs, inp.n) = 0

\* spN on a stack of two values
C29_WitnessCopy ==
  /\ out.done /\ inp.seed /\ inp.stack = <<5, -3>>
  /\ out.r.stack = <<5, -3, -3>> /\ out.ws.stack = <<5, -3, -3>>
  /\ ArrGet(out.r.regs, inp.n) = -3

====
